---------------------------- MODULE Spec2Model ----------------------------
(***************************************************************************)
(* A model of src/face_service/main.py: the InsightFace video face         *)
(* service (quality gate, pose classifier, liveness engine, match          *)
(* decision).                                                              *)
(*                                                                         *)
(* Number representation.  The service computes in floating point; the     *)
(* model computes in fixed point with S = 1000 units per 1.0:              *)
(*   - scores, similarities, distances, embedding components: 1/1000;      *)
(*   - pose angles: 1/1000 degree;                                         *)
(*   - bbox coordinates and image sizes: whole pixels (the code truncates  *)
(*     them with astype(int) or only subtracts them);                      *)
(*   - brightness, contrast, Laplacian variance: raw 0..255-scale units;   *)
(*   - a product of a weight (1/1000) and a score (1/1000) is kept in      *)
(*     1/1000000, so the weighted sums are exact.                          *)
(* The detector (face_app.get) and the OpenCV image statistics are         *)
(* external: their outputs are the inputs of the model.                    *)
(***************************************************************************)
EXTENDS Integers, Sequences, FiniteSets, TLC

VARIABLES
    face_app,         \* module-level detector handle: "None" or "loaded"
    endpoint,         \* the handler serving the current request, or "idle"
    request,          \* the inputs of the current request
    frames_data,      \* the handler's local list of frame samples
    liveness_result,  \* the handler's local dict from check_enhanced_liveness
    best_match,       \* the handler's locals best_similarity, best_distance
    pose_buckets,     \* the handler's locals required_poses, pose_embeddings,
                      \* pose_quality_scores
    response,         \* the handler's return value
    position,         \* where the running coroutine is: "none", "entry",
                      \* or past its first or second await
    suspended,        \* the coroutines parked at an await, each with its
                      \* own arguments
    init_calls,       \* calls of initialize_face_app so far
    constructions     \* FaceAnalysis objects constructed so far

vars == <<face_app, endpoint, request, frames_data, liveness_result,
          best_match, pose_buckets, response, position, suspended,
          init_calls, constructions>>

\* the coroutines of the event loop and the record of the start-up
event_loop == <<position, suspended, init_calls, constructions>>

\* the locals of a handler
locals == <<frames_data, liveness_result, best_match, pose_buckets>>

\* Fixed-point units per 1.0.
S == 10 * 100

(***************************************************************************)
(* Bounds of the model.                                                    *)
(***************************************************************************)
\* Longest frame burst a request carries.
MaxFrames == 5

(***************************************************************************)
(* numpy helpers                                                           *)
(***************************************************************************)
RECURSIVE SumSeq(_)
SumSeq(s) == IF s = <<>> THEN 0 ELSE Head(s) + SumSeq(Tail(s))

Abs(x) == IF x < 0 THEN -x ELSE x

Min(a, b) == IF a < b THEN a ELSE b

Max(a, b) == IF a > b THEN a ELSE b

RECURSIVE ISqrtIter(_, _, _)
ISqrtIter(n, lo, hi) ==
    IF lo >= hi THEN lo
    ELSE LET mid == (lo + hi + 1) \div 2
         IN  IF mid * mid <= n THEN ISqrtIter(n, mid, hi)
                               ELSE ISqrtIter(n, lo, mid - 1)

\* floor(sqrt(n)) for 0 <= n < 2^31
ISqrt(n) == ISqrtIter(n, 0, 46340)

\* np.mean of a non-empty sequence
Mean(s) == SumSeq(s) \div Len(s)

\* np.mean(vectors, axis=0): component-wise mean of a non-empty list of vectors
MeanAxis0(vs) == [k \in 1..Len(vs[1]) |-> Mean([i \in 1..Len(vs) |-> vs[i][k]])]

SumSq(v) == SumSeq([k \in 1..Len(v) |-> v[k] * v[k]])

Dot(a, b) == SumSeq([k \in 1..Len(a) |-> a[k] * b[k]])

\* np.linalg.norm of a vector of 1/1000 components, in 1/1000
Norm(v) == ISqrt(SumSq(v))

(***************************************************************************)
(* euclidean_distance, cosine_similarity                                   *)
(***************************************************************************)
euclidean_distance(emb1, emb2) ==
    Norm([k \in 1..Len(emb1) |-> emb1[k] - emb2[k]])

cosine_similarity_unnormalised(emb1, emb2) == Dot(emb1, emb2) \div S

cosine_similarity(emb1, emb2) ==
    LET norm1 == Norm(emb1)
        norm2 == Norm(emb2)
    IN  IF norm1 = 0 \/ norm2 = 0 THEN 0
        ELSE Dot(emb1, emb2) \div ((norm1 * norm2) \div S)

(***************************************************************************)
(* estimate_head_pose, classify_pose                                       *)
(* kps = <<left_eye, right_eye, nose_tip, left_mouth, right_mouth>>, each   *)
(* a pixel point <<x, y>>; <<>> when the detector gives no keypoints.      *)
(* roll (an arctan2) is returned by the code but read by no decision; it   *)
(* is left out of the record.                                              *)
(***************************************************************************)
estimate_head_pose(face) ==
    IF face.kps = <<>> THEN [yaw |-> 0, pitch |-> 0]
    ELSE
    LET left_eye  == face.kps[1]
        right_eye == face.kps[2]
        nose_tip  == face.kps[3]
        \* eye_center * 2, to stay in whole pixels
        eye_center2 == <<left_eye[1] + right_eye[1], left_eye[2] + right_eye[2]>>
        \* eye_width in 1/1000 pixel
        eye_width == ISqrt(SumSq(<<right_eye[1] - left_eye[1],
                                   right_eye[2] - left_eye[2]>>) * S * S)
        horizontal_diff == ((2 * nose_tip[1] - eye_center2[1]) * S) \div 2
        vertical_diff == ((2 * nose_tip[2] - eye_center2[2]) * S) \div 2
        expected_vertical == (eye_width * 8) \div 10
    IN  IF eye_width > 0
        THEN [yaw   |-> ((horizontal_diff * S) \div eye_width) * 45,
              pitch |-> (((vertical_diff - expected_vertical) * S) \div eye_width) * 30]
        ELSE [yaw |-> 0, pitch |-> 0]

classify_pose_pitch_ignored(pose) ==
    LET yaw == pose.yaw
    IN  IF Abs(yaw) < 10 * S THEN "front"
        ELSE IF yaw < -10 * S THEN "left"
        ELSE IF yaw > 10 * S THEN "right"
        ELSE "front"

classify_pose(pose) ==
    LET yaw == pose.yaw
        pitch == pose.pitch
    IN  IF Abs(pitch) > 15 * S
        THEN IF pitch > 15 * S THEN "down" ELSE "up"
        ELSE IF Abs(yaw) < 10 * S THEN "front"
        ELSE IF yaw < -10 * S THEN "left"
        ELSE IF yaw > 10 * S THEN "right"
        ELSE "front"

estimate_face_angle(face) == classify_pose(estimate_head_pose(face))

(***************************************************************************)
(* check_face_quality                                                      *)
(* img  = [width, height, brightness, laplacian_var, contrast,             *)
(*         texture_score, screen_score]: the decoded image's size and the  *)
(*         OpenCV statistics of its face crop (external computations);     *)
(* face = [bbox, embedding, det_score, kps]: one detector record.          *)
(***************************************************************************)
\* len(a[start:stop]) for an axis of n entries, start >= 0 (Python slicing:
\* a negative stop counts from the end)
SliceLen(start, stop, n) ==
    LET lo == Min(start, n)
        hi == IF stop < 0 THEN Max(stop + n, 0) ELSE Min(stop, n)
    IN  Max(hi - lo, 0)

\* face_region.size > 0
face_region_nonempty(img, face) ==
    LET x1 == face.bbox[1]
        y1 == face.bbox[2]
        x2 == face.bbox[3]
        y2 == face.bbox[4]
    IN  /\ SliceLen(Max(0, y1), Min(img.height, y2), img.height) > 0
        /\ SliceLen(Max(0, x1), Min(img.width, x2), img.width) > 0

face_area_ratio(img, face) ==
    LET face_width == face.bbox[3] - face.bbox[1]
        face_height == face.bbox[4] - face.bbox[2]
    IN  (face_width * face_height * S) \div (img.width * img.height)

\* abs(center_x - img_width / 2) / (img_width / 2), with center_x = (x1 + x2) / 2
center_offset_x(img, face) ==
    (Abs((face.bbox[1] + face.bbox[3]) - img.width) * S) \div img.width

center_offset_y(img, face) ==
    (Abs((face.bbox[2] + face.bbox[4]) - img.height) * S) \div img.height

\* details['brightness'] = brightness / 255.0
brightness_norm(img) == (img.brightness * S) \div 255

\* details['sharpness'] = min(laplacian_var / 500, 1.0)
sharpness(img) == Min((img.laplacian_var * S) \div 500, S)

IssueIf(cond, text) == IF cond THEN <<text>> ELSE <<>>

brightness_issues_none(img, strict) == <<>>

brightness_issues_swapped(img, strict) ==
    LET min_bright == IF strict THEN 50 ELSE 60
        max_bright == IF strict THEN 220 ELSE 200
    IN  IF img.brightness < min_bright
        THEN <<"Image too dark - improve lighting">>
        ELSE IF img.brightness > max_bright
        THEN <<"Image too bright - reduce lighting">>
        ELSE <<>>

brightness_issues(img, strict) ==
    LET min_bright == IF strict THEN 60 ELSE 50
        max_bright == IF strict THEN 200 ELSE 220
    IN  IF img.brightness < min_bright
        THEN <<"Image too dark - improve lighting">>
        ELSE IF img.brightness > max_bright
        THEN <<"Image too bright - reduce lighting">>
        ELSE <<>>

quality_issues(img, face, strict) ==
    LET min_det_score == IF strict THEN 800 ELSE 700
        ratio == face_area_ratio(img, face)
        min_area == IF strict THEN 80 ELSE 50
        max_offset == IF strict THEN 300 ELSE 400
        min_sharpness == IF strict THEN 150 ELSE 100
    IN  IssueIf(face.det_score < min_det_score,
                "Low detection confidence - face may be unclear")
        \o (IF ratio < min_area
            THEN <<"Face too small - move closer to camera">>
            ELSE IF ratio > 700
            THEN <<"Face too large - move further from camera">>
            ELSE <<>>)
        \o IssueIf(center_offset_x(img, face) > max_offset
                     \/ center_offset_y(img, face) > max_offset,
                   "Face not centered - please center your face")
        \o (IF face_region_nonempty(img, face)
            THEN brightness_issues(img, strict)
                 \o IssueIf(img.laplacian_var < min_sharpness,
                            "Image blurry - keep still and ensure focus")
                 \o IssueIf(img.contrast < 30,
                            "Low contrast - improve lighting conditions")
            ELSE <<>>)

quality_details(img, face) ==
    [detection_confidence |-> face.det_score,
     face_area_ratio |-> face_area_ratio(img, face),
     center_offset_x |-> center_offset_x(img, face),
     center_offset_y |-> center_offset_y(img, face)]
    @@ (IF face_region_nonempty(img, face)
        THEN [brightness |-> brightness_norm(img),
              sharpness |-> sharpness(img),
              contrast |-> (img.contrast * S) \div 128]
        ELSE <<>>)

\* the weighted score, in 1/1000000
quality_score(img, face) ==
    LET details == quality_details(img, face)
        ratio == details.face_area_ratio
        center_score == S - Max(details.center_offset_x, details.center_offset_y)
    IN  Min(face.det_score, S) * 300
        + (IF 100 <= ratio /\ ratio <= 500 THEN S * 200
           ELSE IF 50 <= ratio /\ ratio <= 700 THEN (S \div 2) * 200
           ELSE 0)
        + center_score * 200
        + (IF "brightness" \in DOMAIN details
           THEN IF 200 <= details.brightness /\ details.brightness <= 850
                THEN S * 150
                ELSE IF 100 <= details.brightness /\ details.brightness <= 950
                THEN (S \div 2) * 150
                ELSE 0
           ELSE 0)
        + (IF "sharpness" \in DOMAIN details THEN details.sharpness * 150 ELSE 0)

quality_passed_issues_only(issues, score, det_score, strict) ==
    Len(issues) = 0

quality_passed(issues, score, det_score, strict) ==
    LET pass_threshold == IF strict THEN 700 * S ELSE 600 * S
        det_threshold == IF strict THEN 800 ELSE 700
    IN  Len(issues) = 0 /\ score >= pass_threshold /\ det_score >= det_threshold

check_face_quality(img, face, strict) ==
    LET issues == quality_issues(img, face, strict)
        score == quality_score(img, face)
    IN  [passed |-> quality_passed(issues, score, face.det_score, strict),
         score |-> score,
         issues |-> issues,
         details |-> quality_details(img, face)]

(***************************************************************************)
(* check_enhanced_liveness                                                 *)
(* A frame sample is a dict (a record): every handler gives 'embedding',   *)
(* 'bbox' and 'confidence'; 'pose', 'texture_score' and 'screen_score' are *)
(* present only in the handlers that compute them.                         *)
(***************************************************************************)
\* f.get(key, default)
Get(f, key, default) == IF key \in DOMAIN f THEN f[key] ELSE default

\* the truth value of f.get(key) for a list-valued key
Truthy(f, key) == key \in DOMAIN f /\ f[key] # <<>>

\* np.var of a sequence of 1/1000 values, in 1/1000 of the squared unit
Variance(s) == LET m == Mean(s)
               IN  Mean([i \in 1..Len(s) |-> ((s[i] - m) * (s[i] - m)) \div S])

\* np.std of a sequence of 1/1000 values, in 1/1000
StdDev(s) == LET m == Mean(s)
             IN  ISqrt(Mean([i \in 1..Len(s) |-> (s[i] - m) * (s[i] - m)]))

insufficient_frames_4(frames) == Len(frames) < 4

\* len(frames_data) < 5
insufficient_frames(frames) == Len(frames) < 5

\* the face_movement check and movement_score
movement_signal(frames) ==
    LET bboxes == SelectSeq(frames, LAMBDA f : Truthy(f, "bbox"))
    IN  IF Len(bboxes) >= 5
        THEN LET movements ==
                     [i \in 1..(Len(bboxes) - 1) |->
                         ISqrt(SumSq(<<bboxes[i + 1].bbox[1] - bboxes[i].bbox[1],
                                       bboxes[i + 1].bbox[2] - bboxes[i].bbox[2]>>)
                               * S * S)]
                 avg_movement == Mean(movements)
                 movement_variance ==
                     IF Len(movements) > 1 THEN Variance(movements) ELSE 0
                 has_natural_movement ==
                     /\ 3 * S < avg_movement
                     /\ avg_movement < 40 * S
                     /\ movement_variance > 5 * S
             IN  [check |-> has_natural_movement,
                  score |-> IF has_natural_movement
                            THEN Min(S, avg_movement \div 30) ELSE 0]
        ELSE [check |-> FALSE, score |-> 0]

\* the embedding_consistency check and consistency_score
consistency_signal(frames) ==
    LET embs == SelectSeq(frames, LAMBDA f : Truthy(f, "embedding"))
    IN  IF Len(embs) >= 5
        THEN LET similarities ==
                     [i \in 1..(Len(embs) - 1) |->
                         cosine_similarity(embs[i].embedding, embs[i + 1].embedding)]
                 avg_similarity == Mean(similarities)
                 similarity_std ==
                     IF Len(similarities) > 1 THEN StdDev(similarities) ELSE 0
                 is_consistent == avg_similarity > 750 /\ similarity_std < 150
             IN  [check |-> is_consistent,
                  score |-> IF is_consistent THEN avg_similarity
                            ELSE (avg_similarity * 500) \div S]
        ELSE [check |-> FALSE, score |-> 0]

weighted_score_no_blink(scores, checks) ==
    scores.movement_score * 200
    + scores.consistency_score * 250
    + scores.texture_score * 200
    + scores.screen_score * 150
    + scores.pose_score * 100

\* the weighted score, in 1/1000000
weighted_score(scores, checks) ==
    scores.movement_score * 200
    + scores.consistency_score * 250
    + scores.texture_score * 200
    + scores.screen_score * 150
    + scores.pose_score * 100
    + (IF checks.blink_detection THEN S ELSE 0) * 100

\* sum(checks.values())
passed_checks(checks) == Cardinality({k \in DOMAIN checks : checks[k]})

is_live_verdict_or(passed, score) == passed >= 5 \/ score > 600 * S

is_live_verdict(passed, score) == passed >= 5 /\ score > 600 * S

liveness_message_texture_first(is_live, checks) ==
    IF ~is_live
    THEN IF ~checks.texture_analysis
         THEN "Liveness check failed - possible photo/screen detected"
         ELSE IF ~checks.face_movement
         THEN "Liveness check failed - no natural movement detected"
         ELSE IF ~checks.embedding_consistency
         THEN "Liveness check failed - face identity inconsistent"
         ELSE IF ~checks.screen_detection
         THEN "Liveness check failed - screen patterns detected"
         ELSE "Liveness check failed - please try again with better lighting"
    ELSE "Liveness check passed"

liveness_message(is_live, checks) ==
    IF ~is_live
    THEN IF ~checks.face_movement
         THEN "Liveness check failed - no natural movement detected"
         ELSE IF ~checks.embedding_consistency
         THEN "Liveness check failed - face identity inconsistent"
         ELSE IF ~checks.texture_analysis
         THEN "Liveness check failed - possible photo/screen detected"
         ELSE IF ~checks.screen_detection
         THEN "Liveness check failed - screen patterns detected"
         ELSE "Liveness check failed - please try again with better lighting"
    ELSE "Liveness check passed"

check_enhanced_liveness(frames) ==
    IF insufficient_frames(frames)
    THEN [is_live |-> FALSE,
          score |-> 0,
          checks |-> [multiple_frames |-> FALSE, face_movement |-> FALSE,
                      embedding_consistency |-> FALSE, blink_detection |-> FALSE,
                      texture_analysis |-> FALSE, screen_detection |-> FALSE,
                      pose_variation |-> FALSE],
          scores |-> [movement_score |-> 0, consistency_score |-> 0,
                      texture_score |-> 0, screen_score |-> 0, pose_score |-> 0],
          message |-> "Insufficient frames for liveness check (need at least 5)"]
    ELSE
    LET movement == movement_signal(frames)
        consistency == consistency_signal(frames)
        unique_poses == {Get(frames[i], "pose", "front") : i \in 1..Len(frames)}
        avg_texture == Mean([i \in 1..Len(frames) |->
                                Get(frames[i], "texture_score", S \div 2)])
        avg_screen == Mean([i \in 1..Len(frames) |->
                                Get(frames[i], "screen_score", S)])
        checks == [multiple_frames |-> TRUE,
                   face_movement |-> movement.check,
                   embedding_consistency |-> consistency.check,
                   blink_detection |-> TRUE,
                   texture_analysis |-> avg_texture > 400,
                   screen_detection |-> avg_screen > 600,
                   pose_variation |-> Cardinality(unique_poses) >= 2]
        scores == [movement_score |-> movement.score,
                   consistency_score |-> consistency.score,
                   texture_score |-> avg_texture,
                   screen_score |-> avg_screen,
                   pose_score |-> Min(S, (Cardinality(unique_poses) * S) \div 3)]
        score == weighted_score(scores, checks)
        is_live == is_live_verdict(passed_checks(checks), score)
    IN  [is_live |-> is_live,
         score |-> score,
         checks |-> checks,
         scores |-> scores,
         message |-> liveness_message(is_live, checks)]

\* check_liveness: the LivenessCheckResult view of check_enhanced_liveness
check_liveness(frames) ==
    LET result == check_enhanced_liveness(frames)
    IN  [is_live |-> result.is_live, score |-> result.score,
         checks |-> result.checks, message |-> result.message]

(***************************************************************************)
(* Inputs: what the detector and the image statistics give for one image.  *)
(* A frame is [decoded, faces, img]: decoded = FALSE when decode_image     *)
(* raises; faces is the list face_app.get returns.                         *)
(***************************************************************************)
EmbP == <<600, 800>>
EmbA == <<800, 600>>
EmbD == <<800, -600>>

\* eyes 20 px apart; the nose tip decides yaw and pitch
Kps(nose_x, nose_y) ==
    <<(<<40, 40>>), (<<60, 40>>), (<<nose_x, nose_y>>), (<<42, 70>>), (<<58, 70>>)>>

KpsFront == Kps(50, 56)
KpsLeft == Kps(44, 56)
KpsRight == Kps(56, 56)
KpsUp == Kps(50, 44)
KpsDown == Kps(50, 68)

FaceAt(bbox, emb, kps, det) ==
    [bbox |-> bbox, embedding |-> emb, det_score |-> det, kps |-> kps]

\* a 40 x 40 face whose left edge is x1
Face(x1, emb, kps, det) == FaceAt(<<x1, 30, x1 + 40, 70>>, emb, kps, det)

\* a 100 x 100 image and the statistics of its face crop
ImgStats(brightness, laplacian_var, contrast, tex, scr) ==
    [width |-> 100, height |-> 100, brightness |-> brightness,
     laplacian_var |-> laplacian_var, contrast |-> contrast,
     texture_score |-> tex, screen_score |-> scr]

\* a well-lit, sharp image
Img(tex, scr) == ImgStats(128, 400, 50, tex, scr)

OneFace(face, img) == [decoded |-> TRUE, faces |-> <<face>>, img |-> img]

NoFace == [decoded |-> TRUE, faces |-> <<>>, img |-> Img(S, S)]

TwoFaces ==
    [decoded |-> TRUE,
     faces |-> <<Face(30, EmbP, KpsFront, 900), Face(50, EmbA, KpsFront, 900)>>,
     img |-> Img(S, S)]

Undecodable == [decoded |-> FALSE, faces |-> <<>>, img |-> Img(0, 0)]

\* the frames a liveness burst is drawn from
LiveFrames ==
    { OneFace(Face(30, EmbP, KpsFront, 900), Img(S, S)),
      OneFace(Face(35, EmbP, KpsFront, 900), Img(S, S)),
      OneFace(Face(50, EmbA, KpsLeft, 900), Img(S, S)),
      OneFace(Face(30, EmbD, KpsFront, 900), Img(300, 500)),
      OneFace(Face(35, EmbP, KpsLeft, 900), Img(300, 500)),
      OneFace(Face(30, EmbP, KpsFront, 900), Img(S, 500)),
      NoFace, TwoFaces, Undecodable }

Bursts(frames, maxlen) == UNION { [1..n -> frames] : n \in 0..maxlen }

NoRequest == [kind |-> "none"]
NoResult == [message |-> "not run"]
NoBest == [compared |-> FALSE]
NoBuckets == [filled |-> FALSE]
NoResponse == [returned |-> FALSE]

(***************************************************************************)
(* Process lifecycle and request framing                                   *)
(***************************************************************************)
initialize_face_app(handle) == IF handle = "None" THEN "loaded" ELSE handle

constructed_unguarded(handle) == 1

\* the FaceAnalysis objects one call of initialize_face_app constructs
constructed(handle) == IF handle = "None" THEN 1 ELSE 0

Init ==
    /\ face_app = "None"
    /\ endpoint = "idle"
    /\ request = NoRequest
    /\ frames_data = <<>>
    /\ liveness_result = NoResult
    /\ best_match = NoBest
    /\ pose_buckets = NoBuckets
    /\ response = NoResponse
    /\ position = "none"
    /\ suspended = <<>>
    /\ init_calls = 0
    /\ constructions = 0

\* lifespan: the detector is constructed before any request is served
Lifespan ==
    /\ face_app = "None"
    /\ face_app' = initialize_face_app(face_app)
    /\ init_calls' = init_calls + 1
    /\ constructions' = constructions + constructed(face_app)
    /\ UNCHANGED <<endpoint, request, locals, response, position, suspended>>

\* the server accepts a request once the detector is loaded
Idle == face_app = "loaded" /\ endpoint = "idle"

Receive(ep, req) ==
    /\ endpoint' = ep
    /\ request' = req
    /\ frames_data' = <<>>
    /\ liveness_result' = NoResult
    /\ best_match' = NoBest
    /\ pose_buckets' = NoBuckets
    /\ response' = NoResponse
    /\ position' = "entry"
    /\ UNCHANGED <<face_app, suspended, init_calls, constructions>>

\* the response is sent; the handler's locals are discarded
Return ==
    /\ response # NoResponse
    /\ endpoint' = "idle"
    /\ request' = NoRequest
    /\ frames_data' = <<>>
    /\ liveness_result' = NoResult
    /\ best_match' = NoBest
    /\ pose_buckets' = NoBuckets
    /\ response' = NoResponse
    /\ position' = "none"
    /\ UNCHANGED <<face_app, suspended, init_calls, constructions>>

Pending(ep) == endpoint = ep /\ response = NoResponse

(***************************************************************************)
(* POST /check-liveness                                                    *)
(***************************************************************************)
check_liveness_frame_data(frame) ==
    LET face == frame.faces[1]
    IN  [embedding |-> face.embedding,
         bbox |-> face.bbox,
         confidence |-> face.det_score,
         pose |-> classify_pose(estimate_head_pose(face)),
         texture_score |-> frame.img.texture_score,
         screen_score |-> frame.img.screen_score]

RECURSIVE check_liveness_loop(_, _)
check_liveness_loop(frames_list, acc) ==
    IF frames_list = <<>> THEN acc
    ELSE LET frame == Head(frames_list)
         IN  check_liveness_loop(
                 Tail(frames_list),
                 IF frame.decoded /\ Len(frame.faces) = 1
                 THEN Append(acc, check_liveness_frame_data(frame))
                 ELSE acc)

ReceiveCheckLiveness ==
    /\ Idle
    /\ \E frames_list \in Bursts(LiveFrames, MaxFrames) :
        Receive("check-liveness", [frames |-> frames_list])

check_liveness_endpoint ==
    /\ Pending("check-liveness")
    /\ frames_data' = check_liveness_loop(request.frames, <<>>)
    /\ liveness_result' = check_enhanced_liveness(frames_data')
    /\ response' = [returned |-> TRUE,
                    status_code |-> 200,
                    is_live |-> liveness_result'.is_live,
                    score |-> liveness_result'.score,
                    checks |-> liveness_result'.checks,
                    message |-> liveness_result'.message]
    /\ UNCHANGED <<face_app, event_loop, endpoint, request, best_match, pose_buckets>>

NextLiveness ==
    \/ Lifespan
    \/ ReceiveCheckLiveness
    \/ check_liveness_endpoint
    \/ Return

SpecLiveness == Init /\ [][NextLiveness]_vars

(***************************************************************************)
(* Claims about the liveness engine (checked under SpecLiveness)           *)
(***************************************************************************)
LivenessRan == liveness_result # NoResult

BoolToInt(b) == IF b THEN 1 ELSE 0

\* C1: for every frame-sample sequence shorter than 5, whatever the samples
\* hold, check_enhanced_liveness returns is_live = false, score 0, every
\* check false, every sub-score 0 and the insufficient-frames message.
C1_InsufficientFrames ==
    (LivenessRan /\ Len(frames_data) < 5) =>
        liveness_result =
            [is_live |-> FALSE,
             score |-> 0,
             checks |-> [multiple_frames |-> FALSE, face_movement |-> FALSE,
                         embedding_consistency |-> FALSE,
                         blink_detection |-> FALSE, texture_analysis |-> FALSE,
                         screen_detection |-> FALSE, pose_variation |-> FALSE],
             scores |-> [movement_score |-> 0, consistency_score |-> 0,
                         texture_score |-> 0, screen_score |-> 0,
                         pose_score |-> 0],
             message |-> "Insufficient frames for liveness check (need at least 5)"]

\* four samples that move, keep their identity, vary in pose and have full
\* texture and screen scores: the engine has answered for them
C1_Witness ==
    /\ LivenessRan
    /\ Len(frames_data) = 4
    /\ frames_data[1].bbox # frames_data[2].bbox
    /\ frames_data[2].pose # frames_data[3].pose
    /\ \A i \in 1..4 : frames_data[i].texture_score = S
                       /\ frames_data[i].screen_score = S

\* C2 (as claimed): five identical frame samples are never judged live,
\* whatever their texture and screen scores.
C2_IdenticalFramesNotLive ==
    (/\ LivenessRan
     /\ Len(frames_data) = 5
     /\ \A i \in 1..5 : frames_data[i] = frames_data[1])
        => ~liveness_result.is_live

\* C3: for a sequence of at least 5 samples, is_live is true exactly when at
\* least 5 of the 7 checks are true and 0.20*movement + 0.25*consistency +
\* 0.20*texture + 0.15*screen + 0.10*pose + 0.10*blink exceeds 0.6.
C3_Verdict ==
    (LivenessRan /\ Len(frames_data) >= 5) =>
        LET c == liveness_result.checks
            s == liveness_result.scores
            passed == BoolToInt(c.multiple_frames) + BoolToInt(c.face_movement)
                      + BoolToInt(c.embedding_consistency)
                      + BoolToInt(c.blink_detection)
                      + BoolToInt(c.texture_analysis)
                      + BoolToInt(c.screen_detection)
                      + BoolToInt(c.pose_variation)
            weighted == 200 * s.movement_score + 250 * s.consistency_score
                        + 200 * s.texture_score + 150 * s.screen_score
                        + 100 * s.pose_score
                        + 100 * (IF c.blink_detection THEN 1000 ELSE 0)
        IN  liveness_result.is_live <=> (passed >= 5 /\ weighted > 600000)

\* a burst judged live
C3_Witness ==
    LivenessRan /\ Len(frames_data) >= 5 /\ liveness_result.is_live

(***************************************************************************)
(* Calls of check_face_quality (lenient in analyze-frame and               *)
(* register-multi-angle, strict in the video flows) and of classify_pose.  *)
(***************************************************************************)
DetScores == {0, 650, 700, 750, 800, 900, 1000}

\* centred 40x40; centred, too small; centred, small for strict only;
\* centred, too large; off-centre; off-centre for strict only; in band with
\* a small area; reaching over the right edge; wholly outside the image
BBoxes ==
    { <<30, 30, 70, 70>>, <<40, 40, 60, 60>>, <<38, 38, 62, 62>>,
      <<5, 5, 95, 95>>, <<55, 30, 95, 70>>, <<48, 30, 88, 70>>,
      <<48, 35, 78, 65>>, <<80, 30, 130, 70>>, <<200, 200, 210, 210>> }

Brightnesses == {10, 50, 128, 210, 240}

LaplacianVars == {50, 120, 150, 400, 600}

Contrasts == {20, 50}

QualityArgs(det, bbox, brightness, lap, contrast, strict) ==
    [img |-> ImgStats(brightness, lap, contrast, S, S),
     face |-> FaceAt(bbox, EmbP, KpsFront, det),
     strict |-> strict]

CallCheckFaceQuality ==
    /\ Idle
    /\ \E det \in DetScores, bbox \in BBoxes, brightness \in Brightnesses,
          lap \in LaplacianVars, contrast \in Contrasts, strict \in BOOLEAN :
          Receive("check_face_quality",
                  QualityArgs(det, bbox, brightness, lap, contrast, strict))

ReturnCheckFaceQuality ==
    /\ Pending("check_face_quality")
    /\ response' = [returned |-> TRUE]
                   @@ check_face_quality(request.img, request.face, request.strict)
    /\ UNCHANGED <<face_app, event_loop, endpoint, request, locals>>

\* pose angles in 1/1000 degree, around the thresholds of classify_pose
PoseAngles ==
    {-20000, -15001, -15000, -14999, -10001, -10000, -9999, 0,
     9999, 10000, 10001, 14999, 15000, 15001, 20000}

CallClassifyPose ==
    /\ Idle
    /\ \E yaw \in PoseAngles, pitch \in PoseAngles :
          Receive("classify_pose", [yaw |-> yaw, pitch |-> pitch])

ReturnClassifyPose ==
    /\ Pending("classify_pose")
    /\ response' = [returned |-> TRUE, label |-> classify_pose(request)]
    /\ UNCHANGED <<face_app, event_loop, endpoint, request, locals>>

NextQuality ==
    \/ Lifespan
    \/ CallCheckFaceQuality
    \/ ReturnCheckFaceQuality
    \/ CallClassifyPose
    \/ ReturnClassifyPose
    \/ Return

SpecQuality == Init /\ [][NextQuality]_vars

(***************************************************************************)
(* Claims about the quality gate and the pose classifier (SpecQuality)     *)
(***************************************************************************)
Returned(ep) == endpoint = ep /\ response # NoResponse

\* C4: for both profiles, passed is true exactly when the issues list is
\* empty and score >= the profile's pass score (0.60 lenient, 0.70 strict)
\* and det_score >= the profile's detection floor (0.70 lenient, 0.80
\* strict).
C4_Passed ==
    Returned("check_face_quality") =>
        (response.passed <=>
            /\ response.issues = <<>>
            /\ response.score >= (IF request.strict THEN 700000 ELSE 600000)
            /\ request.face.det_score >= (IF request.strict THEN 800 ELSE 700))

\* a frame with no issue whose score is below the pass score is not passed
C4_Witness ==
    /\ Returned("check_face_quality")
    /\ response.issues = <<>>
    /\ response.score < (IF request.strict THEN 700000 ELSE 600000)
    /\ ~response.passed

InSeq(x, seq) == \E i \in 1..Len(seq) : seq[i] = x

PassesQuality(q) == check_face_quality(q.img, q.face, q.strict).passed

\* the metrics of a call, read off its arguments
AreaOf(q) ==
    ((q.face.bbox[3] - q.face.bbox[1]) * (q.face.bbox[4] - q.face.bbox[2]) * 1000)
        \div (q.img.width * q.img.height)

OffsetXOf(q) ==
    (Abs(q.face.bbox[1] + q.face.bbox[3] - q.img.width) * 1000) \div q.img.width

OffsetYOf(q) ==
    (Abs(q.face.bbox[2] + q.face.bbox[4] - q.img.height) * 1000) \div q.img.height

\* is the named metric of call q outside its band for q's profile?
OutOfBand(metric, q) ==
    CASE metric = "detection" ->
            q.face.det_score < (IF q.strict THEN 800 ELSE 700)
      [] metric = "area" ->
            AreaOf(q) < (IF q.strict THEN 80 ELSE 50) \/ AreaOf(q) > 700
      [] metric = "center" ->
            LET max_offset == IF q.strict THEN 300 ELSE 400
            IN  OffsetXOf(q) > max_offset \/ OffsetYOf(q) > max_offset
      [] metric = "brightness" ->
            \/ q.img.brightness < (IF q.strict THEN 60 ELSE 50)
            \/ q.img.brightness > (IF q.strict THEN 200 ELSE 220)
      [] metric = "sharpness" ->
            q.img.laplacian_var < (IF q.strict THEN 150 ELSE 100)
      [] metric = "contrast" -> q.img.contrast < 30

\* the calls that differ from q in the named metric alone
SingleMetricChanges(metric, q) ==
    CASE metric = "detection" ->
            {[q EXCEPT !.face.det_score = d] : d \in DetScores \ {q.face.det_score}}
      [] metric = "area" ->
            {b \in {[q EXCEPT !.face.bbox = bb] : bb \in BBoxes} :
                /\ AreaOf(b) # AreaOf(q)
                /\ OffsetXOf(b) = OffsetXOf(q) /\ OffsetYOf(b) = OffsetYOf(q)}
      [] metric = "center" ->
            {b \in {[q EXCEPT !.face.bbox = bb] : bb \in BBoxes} :
                /\ AreaOf(b) = AreaOf(q)
                /\ (OffsetXOf(b) # OffsetXOf(q) \/ OffsetYOf(b) # OffsetYOf(q))}
      [] metric = "brightness" ->
            {[q EXCEPT !.img.brightness = v] : v \in Brightnesses \ {q.img.brightness}}
      [] metric = "sharpness" ->
            {[q EXCEPT !.img.laplacian_var = v] :
                v \in LaplacianVars \ {q.img.laplacian_var}}
      [] metric = "contrast" ->
            {[q EXCEPT !.img.contrast = v] : v \in Contrasts \ {q.img.contrast}}

Metrics == {"detection", "area", "center", "brightness", "sharpness", "contrast"}

\* the call comes from a passing one by moving the named metric alone out
\* of its band
PerturbedFromPassing(metric, q) ==
    /\ OutOfBand(metric, q)
    /\ \E base \in SingleMetricChanges(metric, q) : PassesQuality(base)

\* C5: starting from a detection that passes, changing any single metric to
\* a value outside its band for the active profile yields passed = false
\* with a non-empty issues list; when the metric is brightness the list
\* holds 'Image too dark - improve lighting' below the band and 'Image too
\* bright - reduce lighting' above it.
C5_SingleMetricOutOfBand ==
    Returned("check_face_quality") =>
        \A metric \in Metrics :
            PerturbedFromPassing(metric, request) =>
                /\ ~response.passed
                /\ response.issues # <<>>
                /\ (metric = "brightness" =>
                      IF request.img.brightness < 128
                      THEN InSeq("Image too dark - improve lighting",
                                 response.issues)
                      ELSE InSeq("Image too bright - reduce lighting",
                                 response.issues))

\* mean luma 10/255 injected into an otherwise passing detection
C5_Witness ==
    /\ Returned("check_face_quality")
    /\ request.img.brightness = 10
    /\ PerturbedFromPassing("brightness", request)
    /\ response.issues = <<"Image too dark - improve lighting">>
    /\ ~response.passed

\* C6: classify_pose yields exactly one of the five labels for every
\* (yaw, pitch); pitch > 15 gives 'down' and pitch < -15 gives 'up' whatever
\* the yaw; otherwise |yaw| < 10 gives 'front', yaw < -10 'left' and
\* yaw > 10 'right'.
C6_ClassifyPose ==
    Returned("classify_pose") =>
        LET yaw == request.yaw
            pitch == request.pitch
            label == response.label
        IN  /\ label \in {"front", "left", "right", "up", "down"}
            /\ pitch > 15000 => label = "down"
            /\ pitch < -15000 => label = "up"
            /\ (pitch >= -15000 /\ pitch <= 15000) =>
                   /\ (yaw > -10000 /\ yaw < 10000) => label = "front"
                   /\ yaw < -10000 => label = "left"
                   /\ yaw > 10000 => label = "right"

\* pitch and yaw both beyond their thresholds: pitch decides
C6_Witness ==
    /\ Returned("classify_pose")
    /\ request.pitch = 20000 /\ request.yaw = -20000
    /\ response.label = "down"

(***************************************************************************)
(* Match decision: the pair comparison and the best-of-set comparison      *)
(***************************************************************************)
\* float('inf'), larger than every distance the model computes
Infinity == 2147483647

\* confidence = max(0, min(100, similarity * 100)), in 1/1000 of a percent
confidence(similarity) == Max(0, Min(100 * S, similarity * 100))

\* match = distance < 0.9 and similarity > 0.5 (verify_face; repeated in
\* verify_face_base64 and compare_faces)
pair_match_similarity_band(distance, similarity) ==
    distance < 900 /\ similarity > 500 /\ similarity < S

pair_match(distance, similarity) == distance < 900 /\ similarity > 500

\* threshold_distance = 0.9, threshold_similarity = 0.5 in verify_video
verify_video_match(best_distance, best_similarity) ==
    best_distance < 900 /\ best_similarity > 500

verify_live_video_match_lenient(best_distance, best_similarity) ==
    best_distance < 900 /\ best_similarity > 500

\* threshold_distance = 0.85, threshold_similarity = 0.55 in verify_live_video
verify_live_video_match(best_distance, best_similarity) ==
    best_distance < 850 /\ best_similarity > 550

\* the stored embeddings a video handler compares against: the 'average'
\* entry of a dict when it has one, else the dict's values, else the one
\* vector the JSON holds
parse_stored_embs(stored_embs_data) ==
    IF stored_embs_data.is_dict
    THEN IF stored_embs_data.has_average
         THEN <<stored_embs_data.average>>
         ELSE stored_embs_data.values
    ELSE <<stored_embs_data.vector>>

\* for stored_emb in stored_embs: keep (sim, dist) when sim > best_similarity
RECURSIVE best_match_loop(_, _, _)
best_match_loop(avg_current, stored_embs, best) ==
    IF stored_embs = <<>> THEN best
    ELSE LET stored_emb == Head(stored_embs)
             sim == cosine_similarity(avg_current, stored_emb)
             dist == euclidean_distance(avg_current, stored_emb)
         IN  best_match_loop(
                 avg_current, Tail(stored_embs),
                 IF sim > best.similarity
                 THEN [compared |-> TRUE, similarity |-> sim, distance |-> dist]
                 ELSE best)

\* best_similarity = 0.0, best_distance = float('inf'), then the loop
best_of_set(avg_current, stored_embs) ==
    best_match_loop(avg_current, stored_embs,
                    [compared |-> TRUE, similarity |-> 0, distance |-> Infinity])

\* avg_current = np.mean(current_embeddings, axis=0)
avg_current_of(frames) ==
    MeanAxis0([i \in 1..Len(frames) |-> frames[i].embedding])

(***************************************************************************)
(* Inputs of the verification endpoints                                    *)
(***************************************************************************)
\* Stored embeddings, with their similarity to and distance from EmbP:
\*   EmbNear   0.96, 0.283      EmbFar    0.60, 0.894
\*   EmbOpp   -1.00, 2.000      EmbLong   1.00, 1.000
\*   EmbZero   0.00, 1.000      EmbShort  0.96, 0.350
\*   EmbTall   1.00, 0.350
EmbNear == <<800, 600>>
EmbFar == <<1000, 0>>
EmbOpp == <<-600, -800>>
EmbLong == <<1200, 1600>>
EmbZero == <<0, 0>>
EmbShort == <<600, 450>>
EmbTall == <<810, 1080>>

StoredEmbeddings ==
    {EmbNear, EmbFar, EmbOpp, EmbLong, EmbZero, EmbShort, EmbTall}

\* Longest list of embeddings a stored dict carries.
MaxStored == 2

\* the JSON a video request carries as stored_embeddings
StoredData ==
    { [is_dict |-> FALSE, vector |-> e] : e \in StoredEmbeddings }
    \cup { [is_dict |-> TRUE, has_average |-> TRUE, average |-> e,
            values |-> <<e, EmbOpp>>] : e \in StoredEmbeddings }
    \cup { [is_dict |-> TRUE, has_average |-> FALSE, values |-> vs] :
             vs \in UNION { [1..n -> StoredEmbeddings] : n \in 0..MaxStored } }

FrameStill == OneFace(Face(30, EmbP, KpsFront, 900), Img(S, S))
FrameTurned == OneFace(Face(50, EmbA, KpsLeft, 900), Img(S, S))
FrameOther == OneFace(Face(30, EmbD, KpsFront, 900), Img(S, S))

\* the images of a single-image request
VerifyImages ==
    { FrameStill, FrameTurned, FrameOther, NoFace, TwoFaces, Undecodable,
      OneFace(Face(30, EmbZero, KpsFront, 900), Img(S, S)),
      OneFace(Face(30, EmbShort, KpsFront, 900), Img(S, S)),
      OneFace(Face(30, EmbTall, KpsFront, 900), Img(S, S)) }

\* the frame bursts of a video request
VerifyBursts ==
    { <<FrameStill, FrameStill, FrameStill, FrameStill, FrameStill>>,
      <<FrameStill, FrameTurned, FrameTurned, FrameStill, FrameStill>>,
      <<FrameStill, NoFace, FrameStill, TwoFaces, FrameStill, Undecodable,
        FrameStill, FrameStill>>,
      <<FrameStill, FrameOther, FrameStill, FrameOther, FrameStill>>,
      <<FrameStill, FrameStill, FrameStill, FrameStill, NoFace>>,
      <<FrameStill, NoFace, NoFace, FrameStill, Undecodable>>,
      <<FrameStill, FrameStill, FrameStill>>,
      <<>> }

(***************************************************************************)
(* POST /verify, POST /verify-base64                                       *)
(***************************************************************************)
\* HTTPException(status_code=400) raised from the handler's except clause
BadRequest == [returned |-> TRUE, status_code |-> 400]

VerificationFailure(liveness_score, message) ==
    [returned |-> TRUE, status_code |-> 200, success |-> FALSE,
     match |-> FALSE, distance |-> S, confidence |-> 0, similarity |-> 0,
     liveness_score |-> liveness_score, message |-> message]

\* the body of verify_face, from the decoded image on
verify_face_response(image, stored_emb) ==
    IF ~image.decoded THEN BadRequest
    ELSE IF Len(image.faces) = 0
    THEN VerificationFailure(0, "No face detected in image")
    ELSE IF Len(image.faces) > 1
    THEN VerificationFailure(
             0, "Multiple faces detected. Please ensure only one face is visible")
    ELSE LET current_emb == image.faces[1].embedding
             distance == euclidean_distance(current_emb, stored_emb)
             similarity == cosine_similarity(current_emb, stored_emb)
             match == pair_match(distance, similarity)
         IN  [returned |-> TRUE, status_code |-> 200, success |-> TRUE,
              match |-> match, distance |-> distance,
              confidence |-> confidence(similarity),
              similarity |-> similarity, liveness_score |-> S * S,
              message |-> IF match THEN "Face verified successfully"
                                   ELSE "Face does not match"]

ReceiveVerify ==
    /\ Idle
    /\ \E image \in VerifyImages, stored_emb \in StoredEmbeddings :
        Receive("verify", [image |-> image, stored_embedding |-> stored_emb])

verify_face ==
    /\ Pending("verify")
    /\ response' = verify_face_response(request.image, request.stored_embedding)
    /\ UNCHANGED <<face_app, event_loop, endpoint, request, locals>>

ReceiveVerifyBase64 ==
    /\ Idle
    /\ \E image \in VerifyImages, stored_emb \in StoredEmbeddings :
        Receive("verify-base64",
                [image |-> image, stored_embedding |-> stored_emb])

verify_face_base64 ==
    /\ Pending("verify-base64")
    /\ response' = verify_face_response(request.image, request.stored_embedding)
    /\ UNCHANGED <<face_app, event_loop, endpoint, request, locals>>

(***************************************************************************)
(* POST /compare                                                           *)
(***************************************************************************)
compare_faces_response(image1, image2) ==
    IF ~image1.decoded \/ ~image2.decoded THEN BadRequest
    ELSE IF Len(image1.faces) = 0
    THEN [returned |-> TRUE, status_code |-> 200, success |-> FALSE,
          message |-> "No face detected in first image"]
    ELSE IF Len(image2.faces) = 0
    THEN [returned |-> TRUE, status_code |-> 200, success |-> FALSE,
          message |-> "No face detected in second image"]
    ELSE LET emb1 == image1.faces[1].embedding
             emb2 == image2.faces[1].embedding
             distance == euclidean_distance(emb1, emb2)
             similarity == cosine_similarity(emb1, emb2)
             match == pair_match(distance, similarity)
         IN  [returned |-> TRUE, status_code |-> 200, success |-> TRUE,
              match |-> match, distance |-> distance,
              similarity |-> similarity,
              confidence |-> confidence(similarity),
              message |-> IF match THEN "Faces match"
                                   ELSE "Faces do not match"]

ReceiveCompare ==
    /\ Idle
    /\ \E image1 \in VerifyImages, image2 \in VerifyImages :
        Receive("compare", [file1 |-> image1, file2 |-> image2])

compare_faces ==
    /\ Pending("compare")
    /\ response' = compare_faces_response(request.file1, request.file2)
    /\ UNCHANGED <<face_app, event_loop, endpoint, request, locals>>

(***************************************************************************)
(* POST /verify-video                                                      *)
(***************************************************************************)
RECURSIVE verify_video_loop(_, _)
verify_video_loop(frames_list, acc) ==
    IF frames_list = <<>> THEN acc
    ELSE LET frame == Head(frames_list)
         IN  verify_video_loop(
                 Tail(frames_list),
                 IF frame.decoded /\ Len(frame.faces) = 1
                 THEN Append(acc, [embedding |-> frame.faces[1].embedding,
                                   bbox |-> frame.faces[1].bbox,
                                   confidence |-> frame.faces[1].det_score])
                 ELSE acc)

ReceiveVerifyVideo ==
    /\ Idle
    /\ \E frames_list \in VerifyBursts, stored_embs_data \in StoredData :
        Receive("verify-video", [frames |-> frames_list,
                                 stored_embeddings |-> stored_embs_data])

verify_video ==
    /\ Pending("verify-video")
    /\ frames_data' = verify_video_loop(request.frames, <<>>)
    /\ liveness_result' = IF Len(frames_data') < 3 THEN NoResult
                          ELSE check_liveness(frames_data')
    /\ best_match' =
           IF liveness_result' # NoResult /\ liveness_result'.is_live
           THEN best_of_set(avg_current_of(frames_data'),
                            parse_stored_embs(request.stored_embeddings))
           ELSE NoBest
    /\ response' =
           IF Len(frames_data') < 3
           THEN VerificationFailure(
                    0, "Not enough valid frames with faces detected")
           ELSE IF ~liveness_result'.is_live
           THEN VerificationFailure(liveness_result'.score,
                                    liveness_result'.message)
           ELSE LET match == verify_video_match(best_match'.distance,
                                                best_match'.similarity)
                IN  [returned |-> TRUE, status_code |-> 200, success |-> TRUE,
                     match |-> match,
                     distance |-> best_match'.distance,
                     confidence |-> confidence(best_match'.similarity),
                     similarity |-> best_match'.similarity,
                     liveness_score |-> liveness_result'.score,
                     message |-> IF match THEN "Face verified successfully"
                                          ELSE "Face does not match"]
    /\ UNCHANGED <<face_app, event_loop, endpoint, request, pose_buckets>>

(***************************************************************************)
(* POST /verify-live-video                                                 *)
(***************************************************************************)
LiveVerificationFailure(liveness_score, anti_spoof_score, message) ==
    [returned |-> TRUE, status_code |-> 200, success |-> FALSE,
     match |-> FALSE, confidence |-> 0, similarity |-> 0,
     liveness_passed |-> FALSE, liveness_score |-> liveness_score,
     anti_spoof_score |-> anti_spoof_score, message |-> message]

RECURSIVE verify_live_video_loop(_, _)
verify_live_video_loop(frames_list, acc) ==
    IF frames_list = <<>> THEN acc
    ELSE LET frame == Head(frames_list)
         IN  verify_live_video_loop(
                 Tail(frames_list),
                 IF frame.decoded /\ Len(frame.faces) = 1
                 THEN LET face == frame.faces[1]
                      IN  Append(acc,
                            [embedding |-> face.embedding,
                             bbox |-> face.bbox,
                             confidence |-> face.det_score,
                             pose |-> classify_pose(estimate_head_pose(face)),
                             quality_score |->
                                 check_face_quality(frame.img, face, TRUE).score,
                             texture_score |-> frame.img.texture_score,
                             screen_score |-> frame.img.screen_score])
                 ELSE acc)

ReceiveVerifyLiveVideo ==
    /\ Idle
    /\ \E frames_list \in VerifyBursts, stored_embs_data \in StoredData :
        Receive("verify-live-video", [frames |-> frames_list,
                                      stored_embeddings |-> stored_embs_data])

verify_live_video ==
    /\ Pending("verify-live-video")
    /\ frames_data' = IF Len(request.frames) < 5 THEN <<>>
                      ELSE verify_live_video_loop(request.frames, <<>>)
    /\ liveness_result' =
           IF Len(request.frames) < 5 \/ Len(frames_data') < 3 THEN NoResult
           ELSE check_enhanced_liveness(frames_data')
    /\ best_match' =
           IF liveness_result' # NoResult /\ liveness_result'.is_live
           THEN best_of_set(avg_current_of(frames_data'),
                            parse_stored_embs(request.stored_embeddings))
           ELSE NoBest
    /\ response' =
           IF Len(request.frames) < 5
           THEN LiveVerificationFailure(
                    0, 0, "Insufficient frames for verification (need at least 5)")
           ELSE IF Len(frames_data') < 3
           THEN LiveVerificationFailure(
                    0, 0, "Not enough valid frames with faces detected")
           ELSE IF ~liveness_result'.is_live
           THEN LiveVerificationFailure(
                    liveness_result'.score,
                    Get(liveness_result'.scores, "texture_score", 0),
                    liveness_result'.message)
           ELSE LET match == verify_live_video_match(best_match'.distance,
                                                     best_match'.similarity)
                    scores == liveness_result'.scores
                IN  [returned |-> TRUE, status_code |-> 200, success |-> TRUE,
                     match |-> match,
                     confidence |-> confidence(best_match'.similarity),
                     similarity |-> best_match'.similarity,
                     liveness_passed |-> TRUE,
                     liveness_score |-> liveness_result'.score,
                     anti_spoof_score |->
                         (Get(scores, "texture_score", S \div 2) * 500
                          + Get(scores, "screen_score", S \div 2) * 500) \div S,
                     message |-> IF match THEN "Face verified successfully"
                                 ELSE "Face does not match registered identity"]
    /\ UNCHANGED <<face_app, event_loop, endpoint, request, pose_buckets>>

NextVerify ==
    \/ Lifespan
    \/ ReceiveVerify
    \/ verify_face
    \/ ReceiveVerifyBase64
    \/ verify_face_base64
    \/ ReceiveCompare
    \/ compare_faces
    \/ ReceiveVerifyVideo
    \/ verify_video
    \/ ReceiveVerifyLiveVideo
    \/ verify_live_video
    \/ Return

SpecVerify == Init /\ [][NextVerify]_vars

(***************************************************************************)
(* Claims about the match decision (checked under SpecVerify)              *)
(***************************************************************************)
VideoEndpoints == {"verify-video", "verify-live-video"}

PairEndpoints == {"verify", "verify-base64"}

\* a video handler has come to the comparison against the stored set
Compared == endpoint \in VideoEndpoints /\ best_match # NoBest

Candidates == parse_stored_embs(request.stored_embeddings)

Probe == avg_current_of(frames_data)

\* C7 (as claimed): comparing the probe against a non-empty stored set, the
\* reported similarity is the maximum similarity over the candidates and the
\* reported or used distance is the distance of that same candidate, also
\* when no candidate has positive similarity.
C7_BestOfSetSameCandidate ==
    (Compared /\ Candidates # <<>>) =>
        /\ response.similarity = best_match.similarity
        /\ endpoint = "verify-video" => response.distance = best_match.distance
        /\ \A i \in 1..Len(Candidates) :
               cosine_similarity(Probe, Candidates[i]) <= best_match.similarity
        /\ \E i \in 1..Len(Candidates) :
               /\ cosine_similarity(Probe, Candidates[i]) = best_match.similarity
               /\ euclidean_distance(Probe, Candidates[i]) = best_match.distance

\* the pair comparison answered for a stored embedding; base is a stored
\* embedding at the same distance from the probe with no greater similarity
PairRaisedFrom(base) ==
    LET current_emb == request.image.faces[1].embedding
    IN  /\ euclidean_distance(current_emb, base) = response.distance
        /\ cosine_similarity(current_emb, base) <= response.similarity
        /\ verify_face_response(request.image, base).match

\* the same for /compare, base being another second image
CompareRaisedFrom(base) ==
    LET emb1 == request.file1.faces[1].embedding
    IN  /\ base.decoded /\ Len(base.faces) >= 1
        /\ euclidean_distance(emb1, base.faces[1].embedding) = response.distance
        /\ cosine_similarity(emb1, base.faces[1].embedding) <= response.similarity
        /\ compare_faces_response(request.file1, base).match

PairMonotonic ==
    /\ (/\ Returned("verify") \/ Returned("verify-base64")
        /\ response.status_code = 200
        /\ response.success)
           => \A base \in StoredEmbeddings :
                  PairRaisedFrom(base) => response.match
    /\ (/\ Returned("compare")
        /\ response.status_code = 200
        /\ response.success)
           => \A base \in VerifyImages :
                  CompareRaisedFrom(base) => response.match

DistanceThreshold(ep) == IF ep = "verify-live-video" THEN 850 ELSE 900

SetMatch(ep, best) ==
    IF ep = "verify-live-video"
    THEN verify_live_video_match(best.distance, best.similarity)
    ELSE verify_video_match(best.distance, best.similarity)

\* candidate j of the stored set was base: same distance from the probe, no
\* greater similarity, every other candidate unchanged, and the set matched
SetRaisedFrom(j, base) ==
    /\ euclidean_distance(Probe, base) = euclidean_distance(Probe, Candidates[j])
    /\ cosine_similarity(Probe, base) <= cosine_similarity(Probe, Candidates[j])
    /\ SetMatch(endpoint, best_of_set(Probe, [Candidates EXCEPT ![j] = base]))

\* C8 (as claimed): for the pair comparison and for the best-of-set
\* comparison, raising the similarity of a compared embedding while every
\* distance is held fixed never turns match = true into match = false.
C8_MonotonicAsClaimed ==
    /\ PairMonotonic
    /\ Compared =>
           \A j \in 1..Len(Candidates), base \in StoredEmbeddings :
               SetRaisedFrom(j, base) => response.match

\* C8: for the pair comparison raising the similarity at a fixed distance
\* never turns match = true into false; for the best-of-set comparison the
\* same holds when the raised candidate's own distance is below the flow's
\* distance threshold.
C8_Monotonic ==
    /\ PairMonotonic
    /\ Compared =>
           \A j \in 1..Len(Candidates), base \in StoredEmbeddings :
               (/\ SetRaisedFrom(j, base)
                /\ euclidean_distance(Probe, Candidates[j])
                       < DistanceThreshold(endpoint))
                   => response.match

\* a candidate of a matching set was raised strictly, at a distance below
\* the threshold, and became the selected one
C8_Witness ==
    /\ Compared
    /\ Len(Candidates) = 2
    /\ response.match
    /\ \E j \in 1..Len(Candidates), base \in StoredEmbeddings :
           /\ SetRaisedFrom(j, base)
           /\ cosine_similarity(Probe, base)
                  < cosine_similarity(Probe, Candidates[j])
           /\ euclidean_distance(Probe, Candidates[j])
                  < DistanceThreshold(endpoint)
           /\ best_of_set(Probe, [Candidates EXCEPT ![j] = base]).similarity
                  < best_match.similarity

\* confidence = similarity * 100 clamped to [0, 100]
Clamped(similarity) ==
    IF similarity * 100 < 0 THEN 0
    ELSE IF similarity * 100 > 100 * S THEN 100 * S
    ELSE similarity * 100

SingleImageProfile ==
    (/\ \/ Returned("verify") \/ Returned("verify-base64") \/ Returned("compare")
     /\ response.status_code = 200
     /\ response.success)
        => /\ response.match <=>
                  (response.distance < 900 /\ response.similarity > 500)
           /\ response.confidence = Clamped(response.similarity)

VideoProfile(ep, threshold_distance, threshold_similarity) ==
    (Returned(ep) /\ response.success)
        => /\ response.match <=>
                  (/\ best_match.distance < threshold_distance
                   /\ best_match.similarity > threshold_similarity)
           /\ response.similarity = best_match.similarity
           /\ response.confidence = Clamped(response.similarity)

\* C9 (as claimed): single-image verification matches exactly when
\* distance < 0.9 and similarity > 0.5; verify-live-video and verify-video
\* match exactly when best distance < 0.85 and best similarity > 0.55; the
\* confidence is similarity * 100 clamped to [0, 100].
C9_ProfilesAsClaimed ==
    /\ SingleImageProfile
    /\ VideoProfile("verify-live-video", 850, 550)
    /\ VideoProfile("verify-video", 850, 550)

\* C9: single-image verification and verify-video match exactly when
\* distance < 0.9 and similarity > 0.5; verify-live-video matches exactly
\* when best distance < 0.85 and best similarity > 0.55; in all flows the
\* confidence is similarity * 100 clamped to [0, 100].
C9_Profiles ==
    /\ SingleImageProfile
    /\ VideoProfile("verify-live-video", 850, 550)
    /\ VideoProfile("verify-video", 900, 500)

\* verify-live-video refused a best candidate that the single-image
\* profile accepts
C9_Witness ==
    /\ Returned("verify-live-video")
    /\ response.success
    /\ ~response.match
    /\ best_match.distance < 900
    /\ best_match.distance >= 850
    /\ best_match.similarity > 550

(***************************************************************************)
(* cosine_similarity and euclidean_distance as functions of two vectors    *)
(***************************************************************************)
MetricVectors == StoredEmbeddings \cup {EmbP, EmbD}

CallEmbeddingMetrics ==
    /\ endpoint = "idle"
    /\ \E emb1 \in MetricVectors, emb2 \in MetricVectors :
        Receive("embedding-metrics", [emb1 |-> emb1, emb2 |-> emb2])

ReturnEmbeddingMetrics ==
    /\ Pending("embedding-metrics")
    /\ response' = [returned |-> TRUE,
                    similarity |-> cosine_similarity(request.emb1, request.emb2),
                    distance |-> euclidean_distance(request.emb1, request.emb2)]
    /\ UNCHANGED <<face_app, event_loop, endpoint, request, locals>>

NextMetrics ==
    \/ CallEmbeddingMetrics
    \/ ReturnEmbeddingMetrics
    \/ Return

SpecMetrics == Init /\ [][NextMetrics]_vars

Symmetric ==
    /\ response.similarity = cosine_similarity(request.emb2, request.emb1)
    /\ response.distance = euclidean_distance(request.emb2, request.emb1)

IsZero(v) == \A k \in 1..Len(v) : v[k] = 0

\* C10 (as claimed): for every embedding a, the all-zero vector included,
\* cosine_similarity(a, a) = 1.0 and euclidean_distance(a, a) = 0; both
\* functions are symmetric in their arguments.
C10_SelfAndSymmetryAsClaimed ==
    Returned("embedding-metrics") =>
        /\ request.emb1 = request.emb2 =>
               response.similarity = S /\ response.distance = 0
        /\ Symmetric

\* C10: for every embedding a, cosine_similarity(a, a) = 1.0 when a is not
\* the all-zero vector and 0 when it is, and euclidean_distance(a, a) = 0;
\* both functions are symmetric in their arguments.
C10_SelfAndSymmetry ==
    Returned("embedding-metrics") =>
        /\ request.emb1 = request.emb2 =>
               /\ response.similarity = IF IsZero(request.emb1) THEN 0 ELSE S
               /\ response.distance = 0
        /\ Symmetric

\* the all-zero vector was compared with itself
C10_Witness ==
    /\ Returned("embedding-metrics")
    /\ request.emb1 = request.emb2
    /\ IsZero(request.emb1)
    /\ response.similarity = 0
    /\ response.distance = 0

(***************************************************************************)
(* Further claims about check_face_quality (checked under SpecQuality)     *)
(***************************************************************************)
\* C14 (as claimed): for every detection record, a bbox whose centre lies
\* outside the image included, and both profiles, the score returned by
\* check_face_quality lies in [0, 1].
C14_ScoreInUnitInterval ==
    Returned("check_face_quality") =>
        0 <= response.score /\ response.score <= S * S

\* C20 (as claimed): under the lenient profile a face crop whose contrast
\* is below 30 gets no contrast issue, and passes when nothing else is
\* flagged and the score and the detection score reach the lenient floors.
C20_ContrastStrictOnly ==
    (/\ Returned("check_face_quality")
     /\ ~request.strict
     /\ face_region_nonempty(request.img, request.face)
     /\ request.img.contrast < 30)
        => /\ ~InSeq("Low contrast - improve lighting conditions",
                     response.issues)
           /\ (/\ \A i \in 1..Len(response.issues) :
                      response.issues[i]
                          = "Low contrast - improve lighting conditions"
               /\ response.score >= 600 * S
               /\ request.face.det_score >= 700)
                  => response.passed

(***************************************************************************)
(* check_enhanced_liveness as a function of a frame-sample sequence        *)
(***************************************************************************)
Sample(x1, emb, pose, tex, scr) ==
    [embedding |-> emb, bbox |-> <<x1, 30, x1 + 40, 70>>, confidence |-> 900,
     pose |-> pose, texture_score |-> tex, screen_score |-> scr]

\* samples with texture and screen scores just above the check thresholds,
\* with one of the two scores at zero, of the opposite embedding, and of a
\* head turned left and right with full scores
EngineSamples ==
    { Sample(10, EmbP, "front", 410, 610),
      Sample(14, EmbA, "front", 410, 610),
      Sample(20, EmbP, "front", 410, 610),
      Sample(10, EmbP, "front", 0, 610),
      Sample(10, EmbP, "front", 410, 0),
      Sample(14, EmbOpp, "front", 0, 0),
      Sample(10, EmbP, "left", S, S),
      Sample(45, EmbP, "right", S, S) }

CallCheckEnhancedLiveness ==
    /\ endpoint = "idle"
    /\ \E frames \in Bursts(EngineSamples, MaxFrames) :
        Receive("check_enhanced_liveness", [frames_data |-> frames])

ReturnCheckEnhancedLiveness ==
    /\ Pending("check_enhanced_liveness")
    /\ frames_data' = request.frames_data
    /\ liveness_result' = check_enhanced_liveness(frames_data')
    /\ response' = [returned |-> TRUE, message |-> liveness_result'.message]
    /\ UNCHANGED <<face_app, event_loop, endpoint, request, best_match, pose_buckets>>

NextEngine ==
    \/ CallCheckEnhancedLiveness
    \/ ReturnCheckEnhancedLiveness
    \/ Return

SpecEngine == Init /\ [][NextEngine]_vars

EngineRan == endpoint = "check_enhanced_liveness" /\ LivenessRan

\* C15: for every frame-sample sequence whose texture and screen scores lie
\* in [0, 1], also when consecutive embeddings have negative cosine
\* similarity, the score returned by check_enhanced_liveness lies in [0, 1].
C15_ScoreInUnitInterval ==
    EngineRan =>
        0 <= liveness_result.score /\ liveness_result.score <= S * S

\* consecutive embeddings were opposite, the consistency sub-score came out
\* negative and the texture check failed
C15_Witness ==
    /\ EngineRan
    /\ Len(frames_data) >= 5
    /\ \E i \in 1..(Len(frames_data) - 1) :
           cosine_similarity(frames_data[i].embedding,
                             frames_data[i + 1].embedding) < 0
    /\ liveness_result.scores.consistency_score < 0
    /\ ~liveness_result.checks.texture_analysis
    /\ liveness_result.score < 50 * S

\* C17: when a sequence of at least 5 samples is judged not live, the
\* message names the first failing check in the order face_movement,
\* embedding_consistency, texture_analysis, screen_detection, and the
\* 'better lighting' message is returned exactly when all four are true.
C17_FailureMessage ==
    (EngineRan /\ Len(frames_data) >= 5 /\ ~liveness_result.is_live) =>
        LET c == liveness_result.checks
        IN  liveness_result.message =
                IF ~c.face_movement
                THEN "Liveness check failed - no natural movement detected"
                ELSE IF ~c.embedding_consistency
                THEN "Liveness check failed - face identity inconsistent"
                ELSE IF ~c.texture_analysis
                THEN "Liveness check failed - possible photo/screen detected"
                ELSE IF ~c.screen_detection
                THEN "Liveness check failed - screen patterns detected"
                ELSE "Liveness check failed - please try again with better lighting"

\* movement and consistency pass, texture and screen both fail: the message
\* is the texture one
C17_Witness ==
    /\ EngineRan
    /\ Len(frames_data) >= 5
    /\ ~liveness_result.is_live
    /\ liveness_result.checks.face_movement
    /\ liveness_result.checks.embedding_consistency
    /\ ~liveness_result.checks.texture_analysis
    /\ ~liveness_result.checks.screen_detection
    /\ liveness_result.message
           = "Liveness check failed - possible photo/screen detected"

(***************************************************************************)
(* POST /analyze-frame                                                     *)
(***************************************************************************)
ImagePoor ==
    OneFace(FaceAt(<<40, 40, 60, 60>>, EmbP, KpsFront, 650),
            ImgStats(10, 50, 20, S, S))

ImageLowContrast ==
    OneFace(Face(30, EmbP, KpsFront, 900), ImgStats(128, 400, 20, S, S))

\* the images of a registration or analysis request
RegisterImages ==
    { FrameStill, FrameTurned, FrameOther, NoFace, TwoFaces, Undecodable,
      ImagePoor, ImageLowContrast,
      OneFace(Face(30, EmbFar, KpsRight, 900), Img(S, S)) }

analyze_frame_response(image) ==
    IF ~image.decoded THEN BadRequest
    ELSE IF Len(image.faces) = 0
    THEN [returned |-> TRUE, status_code |-> 200, success |-> TRUE,
          face_detected |-> FALSE,
          quality |-> [passed |-> FALSE, score |-> 0,
                       issues |-> <<"No face detected">>, details |-> <<>>],
          message |-> "No face detected in frame"]
    ELSE IF Len(image.faces) > 1
    THEN [returned |-> TRUE, status_code |-> 200, success |-> FALSE,
          face_detected |-> TRUE,
          quality |-> [passed |-> FALSE, score |-> 0,
                       issues |-> <<"Multiple faces detected">>,
                       details |-> <<>>],
          message |-> "Multiple faces detected - only one face should be visible"]
    ELSE LET face == image.faces[1]
         IN  [returned |-> TRUE, status_code |-> 200, success |-> TRUE,
              face_detected |-> TRUE,
              quality |-> check_face_quality(image.img, face, FALSE),
              embedding |-> face.embedding,
              bbox |-> face.bbox,
              angle_estimate |-> estimate_face_angle(face),
              message |-> "Frame analyzed successfully"]

ReceiveAnalyzeFrame ==
    /\ Idle
    /\ \E image \in RegisterImages :
        Receive("analyze-frame", [file |-> image])

analyze_frame ==
    /\ Pending("analyze-frame")
    /\ response' = analyze_frame_response(request.file)
    /\ UNCHANGED <<face_app, event_loop, endpoint, request, locals>>

(***************************************************************************)
(* POST /register-multi-angle                                              *)
(***************************************************************************)
\* JSONResponse(status_code=400, content={"success": False, "message": ...})
Rejection(message) ==
    [returned |-> TRUE, status_code |-> 400, success |-> FALSE,
     message |-> message]

multi_angle_poor_quality_any_failure(quality) == ~quality.passed

\* not quality.passed and quality.score < 0.5
multi_angle_poor_quality(quality) ==
    ~quality.passed /\ quality.score < 500 * S

\* for angle, image_data in angle_images.items(): the first image that is
\* refused ends the request; acc holds embeddings, quality_scores and
\* all_embeddings
RECURSIVE register_multi_angle_loop(_, _, _)
register_multi_angle_loop(angle_images, angles, acc) ==
    IF angles = <<>> THEN acc
    ELSE LET angle == Head(angles)
             image == angle_images[angle]
         IN  IF ~image.decoded THEN [refused |-> BadRequest]
             ELSE IF Len(image.faces) = 0
             THEN [refused |->
                      Rejection(<<"No face detected in ", angle, " image">>)]
             ELSE IF Len(image.faces) > 1
             THEN [refused |->
                      Rejection(<<"Multiple faces detected in ", angle,
                                  " image">>)]
             ELSE LET face == image.faces[1]
                      quality == check_face_quality(image.img, face, FALSE)
                  IN  IF multi_angle_poor_quality(quality)
                      THEN [refused |->
                               Rejection(<<"Poor quality in ", angle,
                                           " image: ", quality.issues>>)]
                      ELSE register_multi_angle_loop(
                               angle_images, Tail(angles),
                               [embeddings |->
                                    (angle :> face.embedding) @@ acc.embeddings,
                                quality_scores |->
                                    (angle :> quality.score)
                                        @@ acc.quality_scores,
                                all_embeddings |->
                                    Append(acc.all_embeddings, face.embedding)])

register_multi_angle_response(angle_images) ==
    LET looped == register_multi_angle_loop(
                      angle_images, <<"front", "left", "right">>,
                      [embeddings |-> <<>>, quality_scores |-> <<>>,
                       all_embeddings |-> <<>>])
    IN  IF "refused" \in DOMAIN looped THEN looped.refused
        ELSE LET front_emb == looped.embeddings["front"]
                 left_emb == looped.embeddings["left"]
                 right_emb == looped.embeddings["right"]
                 sim_front_left == cosine_similarity(front_emb, left_emb)
                 sim_front_right == cosine_similarity(front_emb, right_emb)
                 sim_left_right == cosine_similarity(left_emb, right_emb)
                 min_similarity ==
                     Min(sim_front_left, Min(sim_front_right, sim_left_right))
             IN  IF min_similarity < 500
                 THEN Rejection("Face images appear to be from different people. Please ensure all images are of the same person.")
                 ELSE [returned |-> TRUE, status_code |-> 200,
                       success |-> TRUE,
                       embeddings |-> looped.embeddings,
                       average_embedding |-> MeanAxis0(looped.all_embeddings),
                       quality_scores |-> looped.quality_scores,
                       message |-> "Multi-angle face registration successful"]

ReceiveRegisterMultiAngle ==
    /\ Idle
    /\ \E front_image \in RegisterImages, left_image \in RegisterImages,
          right_image \in RegisterImages :
        Receive("register-multi-angle",
                [front |-> front_image, left |-> left_image,
                 right |-> right_image])

register_multi_angle ==
    /\ Pending("register-multi-angle")
    /\ response' = register_multi_angle_response(request)
    /\ UNCHANGED <<face_app, event_loop, endpoint, request, locals>>

NextSingle ==
    \/ Lifespan
    \/ ReceiveVerify
    \/ verify_face
    \/ ReceiveVerifyBase64
    \/ verify_face_base64
    \/ ReceiveCompare
    \/ compare_faces
    \/ ReceiveAnalyzeFrame
    \/ analyze_frame
    \/ ReceiveRegisterMultiAngle
    \/ register_multi_angle
    \/ Return

SpecSingle == Init /\ [][NextSingle]_vars

(***************************************************************************)
(* Claims about the single-image operations (checked under SpecSingle)     *)
(***************************************************************************)
ExactlyOneFace(image) == image.decoded /\ Len(image.faces) = 1

Succeeded == response.status_code = 200 /\ response.success

Angles == {"front", "left", "right"}

\* the lenient quality verdict of an image with exactly one face
LenientQuality(image) ==
    check_face_quality(image.img, image.faces[1], FALSE)

AllAnglesAccepted ==
    \A angle \in Angles :
        /\ ExactlyOneFace(request[angle])
        /\ ~(/\ ~LenientQuality(request[angle]).passed
             /\ LenientQuality(request[angle]).score < 500000)

MinPairwiseSimilarity ==
    LET f == request.front.faces[1].embedding
        l == request.left.faces[1].embedding
        r == request.right.faces[1].embedding
        fl == cosine_similarity(f, l)
        fr == cosine_similarity(f, r)
        lr == cosine_similarity(l, r)
    IN  CHOOSE s \in {fl, fr, lr} : \A u \in {fl, fr, lr} : s <= u

\* C11: register-multi-angle succeeds exactly when each of the three images
\* yields exactly one face, none has passed = false with a lenient score
\* below 0.5, and the least pairwise cosine similarity is >= 0.5; a least
\* similarity below 0.5 is rejected with the 'different people' message; on
\* success average_embedding is the component-wise mean of the three raw
\* embeddings.
C11_MultiAngle ==
    Returned("register-multi-angle") =>
        /\ Succeeded <=> (AllAnglesAccepted /\ MinPairwiseSimilarity >= 500)
        /\ (AllAnglesAccepted /\ MinPairwiseSimilarity < 500) =>
               /\ response.status_code = 400
               /\ ~response.success
               /\ response.message = "Face images appear to be from different people. Please ensure all images are of the same person."
        /\ Succeeded =>
               response.average_embedding =
                   [k \in 1..2 |->
                       (request.front.faces[1].embedding[k]
                        + request.left.faces[1].embedding[k]
                        + request.right.faces[1].embedding[k]) \div 3]

\* three different embeddings, one of them from an image whose quality did
\* not pass, were registered
C11_Witness ==
    /\ Returned("register-multi-angle")
    /\ Succeeded
    /\ request.front.faces[1].embedding # request.left.faces[1].embedding
    /\ request.left.faces[1].embedding # request.right.faces[1].embedding
    /\ request.front.faces[1].embedding # request.right.faces[1].embedding
    /\ \E angle \in Angles : ~LenientQuality(request[angle]).passed

\* C13 (as claimed): a single-image operation produces an embedding
\* comparison or a successful analysis only when the detector returned
\* exactly one face for each input image; with zero faces or several faces
\* in any input image the call ends in a reported rejection and no
\* embedding of that image is used.
C13_ExactlyOneFace ==
    /\ (Returned("verify") \/ Returned("verify-base64")) =>
           (ExactlyOneFace(request.image) <=> Succeeded)
    /\ Returned("compare") =>
           ((ExactlyOneFace(request.file1) /\ ExactlyOneFace(request.file2))
                <=> (Succeeded /\ "similarity" \in DOMAIN response))
    /\ Returned("analyze-frame") =>
           (ExactlyOneFace(request.file)
                <=> (Succeeded /\ "embedding" \in DOMAIN response))
    /\ Returned("register-multi-angle") =>
           (Succeeded => \A angle \in Angles : ExactlyOneFace(request[angle]))

(***************************************************************************)
(* POST /register-continuous-video                                         *)
(***************************************************************************)
frame_kept_any_face(frame) == frame.decoded /\ Len(frame.faces) >= 1

\* decode_base64_image did not raise and len(faces) == 1
frame_kept(frame) == frame.decoded /\ Len(frame.faces) = 1

frame_admitted_passed_only(quality) == quality.passed

\* quality.passed or quality.score >= 0.65
frame_admitted(quality) == quality.passed \/ quality.score >= 650 * S

\* for idx, frame_b64 in enumerate(frames_list): acc holds all_frames_data,
\* required_poses, pose_embeddings and pose_quality_scores
RECURSIVE register_continuous_video_loop(_, _)
register_continuous_video_loop(frames_list, acc) ==
    IF frames_list = <<>> THEN acc
    ELSE LET frame == Head(frames_list)
         IN  IF ~frame_kept(frame)
             THEN register_continuous_video_loop(Tail(frames_list), acc)
             ELSE
             LET face == frame.faces[1]
                 quality == check_face_quality(frame.img, face, TRUE)
                 pose == estimate_head_pose(face)
                 pose_label == classify_pose(pose)
                 frame_data ==
                     [embedding |-> face.embedding,
                      bbox |-> face.bbox,
                      confidence |-> face.det_score,
                      pose |-> pose_label,
                      pose_angles |-> pose,
                      quality_score |-> quality.score,
                      texture_score |-> frame.img.texture_score,
                      screen_score |-> frame.img.screen_score]
                 admitted == /\ frame_admitted(quality)
                             /\ pose_label \in DOMAIN acc.pose_embeddings
             IN  register_continuous_video_loop(
                     Tail(frames_list),
                     [all_frames_data |-> Append(acc.all_frames_data, frame_data),
                      pose_embeddings |->
                          IF admitted
                          THEN [acc.pose_embeddings EXCEPT
                                   ![pose_label] = Append(@, face.embedding)]
                          ELSE acc.pose_embeddings,
                      pose_quality_scores |->
                          IF admitted /\ pose_label \in DOMAIN acc.pose_quality_scores
                          THEN [acc.pose_quality_scores EXCEPT
                                   ![pose_label] = Append(@, quality.score)]
                          ELSE acc.pose_quality_scores,
                      required_poses |->
                          IF admitted /\ pose_label \in DOMAIN acc.required_poses
                          THEN [acc.required_poses EXCEPT ![pose_label] = TRUE]
                          ELSE acc.required_poses])

\* the dicts before the loop
EmptyBuckets ==
    [all_frames_data |-> <<>>,
     required_poses |-> [front |-> FALSE, left |-> FALSE, right |-> FALSE],
     pose_embeddings |-> [front |-> <<>>, left |-> <<>>, right |-> <<>>,
                          up |-> <<>>, down |-> <<>>],
     pose_quality_scores |-> [front |-> <<>>, left |-> <<>>, right |-> <<>>]]

RequiredOrder == <<"front", "left", "right">>

\* [p for p, captured in required_poses.items() if not captured]
missing_poses(required_poses) ==
    SelectSeq(RequiredOrder, LAMBDA pose : ~required_poses[pose])

pose_instructions ==
    [front |-> "look directly at the camera",
     left |-> "turn your head slightly to the left",
     right |-> "turn your head slightly to the right"]

\* f"Missing required poses: {', '.join(missing_poses)}. Please
\* {' and '.join(missing_instructions)}."
missing_poses_message(missing) ==
    <<"Missing required poses: ", missing, ". Please ",
      [i \in 1..Len(missing) |-> pose_instructions[missing[i]]], ".">>

\* np.argsort(scores): the indices in ascending order of score, equal
\* scores in index order
argsort(scores) ==
    [pos \in 1..Len(scores) |->
        CHOOSE i \in 1..Len(scores) :
            Cardinality({j \in 1..Len(scores) :
                            \/ scores[j] < scores[i]
                            \/ (scores[j] = scores[i] /\ j < i)}) = pos - 1]

top_indices_first(scores) ==
    [pos \in 1..Min(3, Len(scores)) |-> pos]

\* np.argsort(scores)[::-1][:min(3, len(sorted_indices))]
top_indices(scores) ==
    LET ascending == argsort(scores)
        n == Len(scores)
    IN  [pos \in 1..Min(3, n) |-> ascending[n + 1 - pos]]

\* the poses whose bucket is not empty, in the order front, left, right
captured_poses(buckets) ==
    SelectSeq(RequiredOrder, LAMBDA pose : buckets.pose_embeddings[pose] # <<>>)

top_embeddings(buckets, pose) ==
    LET top == top_indices(buckets.pose_quality_scores[pose])
    IN  [pos \in 1..Len(top) |-> buckets.pose_embeddings[pose][top[pos]]]

final_embeddings(buckets) ==
    [pose \in {captured_poses(buckets)[i] : i \in 1..Len(captured_poses(buckets))}
        |-> MeanAxis0(top_embeddings(buckets, pose))]

final_quality_scores(buckets) ==
    [pose \in {captured_poses(buckets)[i] : i \in 1..Len(captured_poses(buckets))}
        |-> LET top == top_indices(buckets.pose_quality_scores[pose])
            IN  Mean([pos \in 1..Len(top) |->
                         buckets.pose_quality_scores[pose][top[pos]]])]

RECURSIVE Concat(_)
Concat(seqs) == IF seqs = <<>> THEN <<>> ELSE Head(seqs) \o Concat(Tail(seqs))

\* all_embeddings.extend(top_embeddings) for front, left, right
all_embeddings(buckets) ==
    Concat([i \in 1..Len(captured_poses(buckets)) |->
               top_embeddings(buckets, captured_poses(buckets)[i])])

poses_inconsistent_never(finals) == FALSE

\* some pair of different poses has cosine similarity below 0.5
poses_inconsistent(finals) ==
    \E pose_label \in DOMAIN finals, other_label \in DOMAIN finals :
        /\ pose_label # other_label
        /\ cosine_similarity(finals[pose_label], finals[other_label]) < 500

\* Frames of a registration burst.  The bbox moves a few pixels from frame
\* to frame, the embedding alternates between two nearby vectors and the
\* sharpness changes with the position in the burst.
BurstX == <<26, 30, 26, 36, 26, 30, 26, 36, 26, 30>>

BurstLaplacian == <<400, 450, 350, 500, 300, 300, 450, 350, 500, 400>>

BurstEmb(pos) == IF pos % 2 = 1 THEN EmbP ELSE EmbA

FrameKinds ==
    {"front", "left", "right", "up", "other_left", "poor", "low_contrast_right",
     "low_det_left", "spoof", "dropped"}

BurstFrame(pos, kind) ==
    LET x1 == BurstX[pos]
        lap == BurstLaplacian[pos]
        good == ImgStats(128, lap, 50, S, S)
    IN  CASE kind = "front" -> OneFace(Face(x1, BurstEmb(pos), KpsFront, 900), good)
          [] kind = "left" -> OneFace(Face(x1, BurstEmb(pos), KpsLeft, 900), good)
          [] kind = "right" -> OneFace(Face(x1, BurstEmb(pos), KpsRight, 900), good)
          [] kind = "up" -> OneFace(Face(x1, BurstEmb(pos), KpsUp, 900), good)
          [] kind = "other_left" -> OneFace(Face(x1, EmbD, KpsLeft, 900), good)
          [] kind = "poor" ->
                 OneFace(Face(x1, BurstEmb(pos), KpsFront, 650),
                         ImgStats(10, 50, 50, S, S))
          [] kind = "low_contrast_right" ->
                 OneFace(Face(x1, BurstEmb(pos), KpsRight, 900),
                         ImgStats(128, lap, 20, S, S))
          [] kind = "low_det_left" ->
                 OneFace(Face(x1, BurstEmb(pos), KpsLeft, 750), good)
          [] kind = "spoof" ->
                 OneFace(Face(x1, BurstEmb(pos), KpsFront, 900),
                         ImgStats(128, lap, 50, 0, 0))
          [] OTHER -> IF pos % 3 = 0 THEN NoFace
                      ELSE IF pos % 3 = 1 THEN TwoFaces
                      ELSE Undecodable

\* frames 1-2, 3-5, 6-8 and 9-10 of a burst are of one kind each
SegmentedBurst(kind1, kind2, kind3, kind4) ==
    [pos \in 1..10 |->
        BurstFrame(pos, IF pos <= 2 THEN kind1
                        ELSE IF pos <= 5 THEN kind2
                        ELSE IF pos <= 8 THEN kind3 ELSE kind4)]

RegisterBursts ==
    { SegmentedBurst(kind1, kind2, kind3, kind4) :
          kind1 \in FrameKinds, kind2 \in FrameKinds,
          kind3 \in FrameKinds, kind4 \in FrameKinds }
    \cup { <<>>, [pos \in 1..9 |-> BurstFrame(pos, "front")] }

ReceiveRegisterContinuousVideo ==
    /\ Idle
    /\ \E frames_list \in RegisterBursts :
        Receive("register-continuous-video", [frames |-> frames_list])

register_continuous_video ==
    /\ Pending("register-continuous-video")
    /\ pose_buckets' =
           IF Len(request.frames) < 10 THEN NoBuckets
           ELSE [filled |-> TRUE]
                @@ register_continuous_video_loop(request.frames, EmptyBuckets)
    /\ frames_data' = IF Len(request.frames) < 10 THEN <<>>
                      ELSE pose_buckets'.all_frames_data
    /\ liveness_result' =
           IF Len(request.frames) < 10 \/ Len(frames_data') < 5 THEN NoResult
           ELSE check_enhanced_liveness(frames_data')
    /\ response' =
           IF Len(request.frames) < 10
           THEN Rejection("Insufficient frames - please record for at least 3 seconds")
           ELSE IF Len(frames_data') < 5
           THEN Rejection("Could not detect face in enough frames. Please ensure good lighting and face visibility.")
           ELSE IF ~liveness_result'.is_live
           THEN Rejection(liveness_result'.message)
                @@ [liveness_score |-> liveness_result'.score,
                    liveness_checks |-> liveness_result'.checks]
           ELSE IF missing_poses(pose_buckets'.required_poses) # <<>>
           THEN Rejection(missing_poses_message(
                              missing_poses(pose_buckets'.required_poses)))
                @@ [poses_captured |-> pose_buckets'.required_poses]
           ELSE IF poses_inconsistent(final_embeddings(pose_buckets'))
           THEN Rejection("Face images from different poses appear inconsistent. Please try again ensuring only one person is visible.")
           ELSE [returned |-> TRUE, status_code |-> 200, success |-> TRUE,
                 poses_captured |-> pose_buckets'.required_poses,
                 embeddings |-> final_embeddings(pose_buckets'),
                 average_embedding |-> MeanAxis0(all_embeddings(pose_buckets')),
                 quality_scores |-> final_quality_scores(pose_buckets'),
                 liveness_passed |-> TRUE,
                 liveness_score |-> liveness_result'.score,
                 total_frames_processed |-> Len(frames_data'),
                 message |-> "Face registration successful with continuous video capture"]
    /\ UNCHANGED <<face_app, event_loop, endpoint, request, best_match>>

NextRegister ==
    \/ Lifespan
    \/ ReceiveRegisterContinuousVideo
    \/ register_continuous_video
    \/ Return

SpecRegister == Init /\ [][NextRegister]_vars

NextBursts ==
    \/ Lifespan
    \/ ReceiveCheckLiveness
    \/ check_liveness_endpoint
    \/ ReceiveVerifyVideo
    \/ verify_video
    \/ ReceiveVerifyLiveVideo
    \/ verify_live_video
    \/ ReceiveRegisterContinuousVideo
    \/ register_continuous_video
    \/ Return

SpecBursts == Init /\ [][NextBursts]_vars

(***************************************************************************)
(* Claims about the burst flows                                            *)
(***************************************************************************)
BurstEndpoints ==
    {"check-liveness", "verify-video", "verify-live-video",
     "register-continuous-video"}

\* the input frames that decoded and yielded exactly one face, in order
SingleFaceFrames == SelectSeq(request.frames, ExactlyOneFace)

\* a burst flow has called the liveness engine
BurstEngineRan ==
    /\ endpoint \in BurstEndpoints
    /\ response # NoResponse
    /\ LivenessRan

\* C12: in every burst flow the sample sequence handed to the liveness
\* engine is, in the original order, made of exactly the input frames that
\* decoded and yielded exactly one face; a frame with no face, several
\* faces or a decoding error is dropped and the frames after it are still
\* processed.
C12_SingleFaceSubsequence ==
    BurstEngineRan =>
        /\ Len(frames_data) = Len(SingleFaceFrames)
        /\ \A i \in 1..Len(frames_data) :
            /\ frames_data[i].embedding = SingleFaceFrames[i].faces[1].embedding
            /\ frames_data[i].bbox = SingleFaceFrames[i].faces[1].bbox
            /\ frames_data[i].confidence = SingleFaceFrames[i].faces[1].det_score

\* a continuous registration whose burst has, between kept frames, a frame
\* without a face, one with two faces and an undecodable one
C12_Witness ==
    /\ BurstEngineRan
    /\ endpoint = "register-continuous-video"
    /\ ExactlyOneFace(request.frames[2])
    /\ request.frames[3].decoded /\ request.frames[3].faces = <<>>
    /\ Len(request.frames[4].faces) = 2
    /\ ~request.frames[5].decoded
    /\ ExactlyOneFace(request.frames[6])
    /\ Len(frames_data) = 7

(***************************************************************************)
(* Claims about POST /register-continuous-video                            *)
(***************************************************************************)
RegisterReturned == Returned("register-continuous-video")

RegisterSucceeded == RegisterReturned /\ response.success

\* the single-face frames of the request admitted to the bucket of a pose
Admitted(pose) ==
    SelectSeq(SingleFaceFrames,
              LAMBDA frame :
                  /\ classify_pose(estimate_head_pose(frame.faces[1])) = pose
                  /\ LET quality ==
                             check_face_quality(frame.img, frame.faces[1], TRUE)
                     IN  quality.passed \/ quality.score >= 650 * S)

AdmittedScores(pose) ==
    [i \in 1..Len(Admitted(pose)) |->
        check_face_quality(Admitted(pose)[i].img,
                           Admitted(pose)[i].faces[1], TRUE).score]

AdmittedEmbeddings(pose) ==
    [i \in 1..Len(Admitted(pose)) |-> Admitted(pose)[i].faces[1].embedding]

\* the sets of (up to 3) admitted samples of a pose that no sample left
\* out beats in quality score
TopSelections(pose) ==
    LET scores == AdmittedScores(pose)
        n == Len(scores)
    IN  { sel \in SUBSET (1..n) :
            /\ Cardinality(sel) = Min(3, n)
            /\ \A i \in sel : \A j \in (1..n) \ sel : scores[j] <= scores[i] }

RECURSIVE SumOver(_, _)
SumOver(sel, values) ==
    IF sel = {} THEN 0
    ELSE LET i == CHOOSE i \in sel : TRUE
         IN  values[i] + SumOver(sel \ {i}, values)

Component(vectors, k) == [i \in 1..Len(vectors) |-> vectors[i][k]]

MeanEmbedding(pose, sel) ==
    [k \in 1..2 |->
        SumOver(sel, Component(AdmittedEmbeddings(pose), k)) \div Cardinality(sel)]

\* C16: on a successful register-continuous-video the representative
\* embedding of each of front, left and right is the mean of the (up to 3)
\* admitted samples of that pose with the highest quality scores, the
\* reported quality of the pose is the mean of those samples' scores, and
\* average_embedding is the mean over all selected samples of the three
\* poses, each sample weighted equally.
C16_TopThreeMeans ==
    RegisterSucceeded =>
        \E front \in TopSelections("front") :
        \E left \in TopSelections("left") :
        \E right \in TopSelections("right") :
            LET sel == [front |-> front, left |-> left, right |-> right]
                Poses == {"front", "left", "right"}
                total == Cardinality(front) + Cardinality(left) + Cardinality(right)
            IN  /\ \A pose \in Poses :
                    /\ sel[pose] # {}
                    /\ response.embeddings[pose] = MeanEmbedding(pose, sel[pose])
                    /\ response.quality_scores[pose] =
                           SumOver(sel[pose], AdmittedScores(pose))
                               \div Cardinality(sel[pose])
                /\ response.average_embedding =
                       [k \in 1..2 |->
                           ( SumOver(front, Component(AdmittedEmbeddings("front"), k))
                           + SumOver(left, Component(AdmittedEmbeddings("left"), k))
                           + SumOver(right, Component(AdmittedEmbeddings("right"), k)) )
                           \div total]

\* a success where one pose has more than 3 admitted samples, the best of
\* which are not the first, another pose has fewer than 3, and the mean
\* over the selected samples differs from the mean of the representatives
C16_Witness ==
    /\ RegisterSucceeded
    /\ \E pose \in {"front", "left", "right"} :
        /\ Len(Admitted(pose)) > 3
        /\ \E i \in 1..3 : \E j \in 4..Len(Admitted(pose)) :
               AdmittedScores(pose)[i] < AdmittedScores(pose)[j]
    /\ \E pose \in {"front", "left", "right"} : Len(Admitted(pose)) < 3
    /\ response.average_embedding #
           MeanAxis0(<<response.embeddings.front, response.embeddings.left,
                       response.embeddings.right>>)

\* the required poses that received no admitted frame
MissingRequired == SelectSeq(RequiredOrder, LAMBDA pose : Admitted(pose) = <<>>)

\* C18: for a burst with at least 5 single-face frames that both lacks an
\* admitted frame for some required pose and is judged not live, the
\* rejection of register-continuous-video is the "Missing required poses"
\* message listing exactly the missing poses, not the liveness message.
C18_PoseCheckBeforeLiveness ==
    ( /\ RegisterReturned
      /\ Len(request.frames) >= 10
      /\ Len(SingleFaceFrames) >= 5
      /\ MissingRequired # <<>>
      /\ ~check_enhanced_liveness(frames_data).is_live )
    => /\ "poses_captured" \in DOMAIN response
       /\ response.message = missing_poses_message(MissingRequired)

\* the three pose representatives agree pairwise
RepresentativesConsistent ==
    LET finals == final_embeddings(pose_buckets)
    IN  \A pose \in DOMAIN finals : \A other \in DOMAIN finals :
            pose # other => cosine_similarity(finals[pose], finals[other]) >= 500

\* every condition of a successful continuous registration
RegistrationConditions ==
    /\ Len(request.frames) >= 10
    /\ Len(SingleFaceFrames) >= 5
    /\ check_enhanced_liveness(frames_data).is_live
    /\ MissingRequired = <<>>
    /\ RepresentativesConsistent

StrictResult == check_face_quality(request.img, request.face, TRUE)

LenientResult == check_face_quality(request.img, request.face, FALSE)

IssueSet(result) == {result.issues[i] : i \in 1..Len(result.issues)}

\* C22: for every image and detection check_face_quality returns the same
\* score under both profiles, every issue raised under the lenient profile
\* is also raised under the strict one, and passed under strict implies
\* passed under lenient.
C22_StrictIsStricter ==
    Returned("check_face_quality") =>
        /\ response.score = (IF request.strict THEN StrictResult
                             ELSE LenientResult).score
        /\ response.issues = (IF request.strict THEN StrictResult
                              ELSE LenientResult).issues
        /\ response.passed = (IF request.strict THEN StrictResult
                              ELSE LenientResult).passed
        /\ StrictResult.score = LenientResult.score
        /\ IssueSet(LenientResult) \subseteq IssueSet(StrictResult)
        /\ StrictResult.passed => LenientResult.passed

\* a strict call that fails on an image the lenient profile passes, with
\* an issue only the strict profile raises
C22_Witness ==
    /\ Returned("check_face_quality")
    /\ request.strict
    /\ ~response.passed
    /\ LenientResult.passed
    /\ IssueSet(StrictResult) # {}
    /\ IssueSet(LenientResult) = {}

(***************************************************************************)
(* The admission test of register-continuous-video                         *)
(***************************************************************************)
StrictQuality(frame) == check_face_quality(frame.img, frame.faces[1], TRUE)

\* the single-face frames of a pose whose strict score is at least 0.65
ScoredAtLeast065(pose) ==
    SelectSeq(SingleFaceFrames,
              LAMBDA frame :
                  /\ classify_pose(estimate_head_pose(frame.faces[1])) = pose
                  /\ StrictQuality(frame).score >= 650 * S)

\* C23: in register-continuous-video the admission test "quality.passed or
\* quality.score >= 0.65" is equivalent to "quality.score >= 0.65" alone;
\* a frame with a non-empty issues list is admitted into its pose bucket
\* whenever its score is at least 0.65 and can be averaged into the
\* enrollment record.
C23_AdmissionByScoreAlone ==
    (RegisterReturned /\ Len(request.frames) >= 10) =>
        /\ \A i \in 1..Len(SingleFaceFrames) :
            LET quality == StrictQuality(SingleFaceFrames[i])
            IN  /\ (quality.passed \/ quality.score >= 650 * S)
                       <=> quality.score >= 650 * S
                /\ quality.passed => quality.score >= 700 * S
        /\ \A pose \in {"front", "left", "right"} :
            /\ pose_buckets.pose_embeddings[pose] =
                   [i \in 1..Len(ScoredAtLeast065(pose)) |->
                       ScoredAtLeast065(pose)[i].faces[1].embedding]
            /\ pose_buckets.pose_quality_scores[pose] =
                   [i \in 1..Len(ScoredAtLeast065(pose)) |->
                       StrictQuality(ScoredAtLeast065(pose)[i]).score]
            /\ pose_buckets.required_poses[pose] <=> ScoredAtLeast065(pose) # <<>>

\* a success where every sample of one pose has a detection score below
\* the strict floor, so that the representative of the pose and the
\* average embedding are made of frames that did not pass the quality check
C23_Witness ==
    /\ RegisterSucceeded
    /\ \E pose \in {"front", "left", "right"} :
        /\ Len(ScoredAtLeast065(pose)) \in 1..3
        /\ \A i \in 1..Len(ScoredAtLeast065(pose)) :
            /\ ~StrictQuality(ScoredAtLeast065(pose)[i]).passed
            /\ StrictQuality(ScoredAtLeast065(pose)[i]).issues # <<>>
            /\ ScoredAtLeast065(pose)[i].faces[1].det_score < 800
        /\ response.embeddings[pose] =
               MeanAxis0([i \in 1..Len(ScoredAtLeast065(pose)) |->
                             ScoredAtLeast065(pose)[i].faces[1].embedding])

(***************************************************************************)
(* Concurrent requests.  The handlers are coroutines of one event loop: a  *)
(* handler runs until it returns or reaches an await (file.read() in       *)
(* analyze_frame and verify_face, twice in compare_faces), where the loop  *)
(* may run other coroutines before it resumes.                             *)
(***************************************************************************)
\* Most coroutines parked at an await at one time.
MaxSuspended == 2

\* Most calls of initialize_face_app.
MaxInitCalls == 3

\* the awaits a handler passes before its body
AwaitCount(ep) ==
    CASE ep = "compare" -> 2
      [] ep \in {"verify", "analyze-frame"} -> 1
      [] OTHER -> 0

AwaitsPassed(pos) ==
    CASE pos = "read1" -> 1
      [] pos = "read2" -> 2
      [] OTHER -> 0

PositionAfter(pos) == IF pos = "entry" THEN "read1" ELSE "read2"

ConcurrentRequests ==
    { [endpoint |-> "verify",
       request |-> [image |-> FrameStill, stored_embedding |-> EmbNear]],
      [endpoint |-> "verify",
       request |-> [image |-> FrameOther, stored_embedding |-> EmbNear]],
      [endpoint |-> "analyze-frame", request |-> [file |-> FrameStill]],
      [endpoint |-> "analyze-frame", request |-> [file |-> ImagePoor]],
      [endpoint |-> "compare",
       request |-> [file1 |-> FrameStill, file2 |-> FrameTurned]],
      [endpoint |-> "compare",
       request |-> [file1 |-> FrameOther, file2 |-> FrameStill]],
      [endpoint |-> "register-continuous-video",
       request |-> [frames |-> SegmentedBurst("front", "left", "right", "right")]],
      [endpoint |-> "register-continuous-video",
       request |-> [frames |-> SegmentedBurst("spoof", "spoof", "spoof", "front")]] }

\* the event loop starts the coroutine of a new request
ReceiveConcurrent ==
    /\ Idle
    /\ \E accepted \in ConcurrentRequests :
        Receive(accepted.endpoint, accepted.request)

\* the running coroutine reaches an await and is parked with its arguments
Suspend ==
    /\ endpoint # "idle"
    /\ response = NoResponse
    /\ AwaitsPassed(position) < AwaitCount(endpoint)
    /\ Len(suspended) < MaxSuspended
    /\ suspended' = Append(suspended, [endpoint |-> endpoint,
                                       request |-> request,
                                       position |-> position])
    /\ endpoint' = "idle"
    /\ request' = NoRequest
    /\ position' = "none"
    /\ UNCHANGED <<face_app, locals, response, init_calls, constructions>>

\* the event loop resumes a parked coroutine after its await
Resume ==
    /\ Idle
    /\ \E i \in 1..Len(suspended) :
        /\ endpoint' = suspended[i].endpoint
        /\ request' = suspended[i].request
        /\ position' = PositionAfter(suspended[i].position)
        /\ suspended' = SubSeq(suspended, 1, i - 1)
                        \o SubSeq(suspended, i + 1, Len(suspended))
    /\ UNCHANGED <<face_app, locals, response, init_calls, constructions>>

\* one more call of initialize_face_app, at any time
CallInitializeFaceApp ==
    /\ init_calls < MaxInitCalls
    /\ face_app' = initialize_face_app(face_app)
    /\ init_calls' = init_calls + 1
    /\ constructions' = constructions + constructed(face_app)
    /\ UNCHANGED <<endpoint, request, locals, response, position, suspended>>

NextConcurrent ==
    \/ Lifespan
    \/ CallInitializeFaceApp
    \/ ReceiveConcurrent
    \/ Suspend
    \/ Resume
    \/ verify_face
    \/ analyze_frame
    \/ compare_faces
    \/ register_continuous_video
    \/ Return

SpecConcurrent == Init /\ [][NextConcurrent]_vars

\* the result of a single-image request that runs alone
AloneResponse(ep, req) ==
    CASE ep = "verify" -> verify_face_response(req.image, req.stored_embedding)
      [] ep = "analyze-frame" -> analyze_frame_response(req.file)
      [] ep = "compare" -> compare_faces_response(req.file1, req.file2)

\* the buckets, frame list and verdict of a continuous registration are
\* those its own frames give, starting from empty buckets
RegisterLocalsOwn ==
    /\ pose_buckets =
           IF Len(request.frames) < 10 THEN NoBuckets
           ELSE [filled |-> TRUE]
                @@ register_continuous_video_loop(request.frames, EmptyBuckets)
    /\ Len(request.frames) >= 10 =>
           /\ frames_data = pose_buckets.all_frames_data
           /\ Len(frames_data) >= 5 =>
                  liveness_result = check_enhanced_liveness(frames_data)
    /\ response.success <=> RegistrationConditions
    /\ response.success =>
           /\ response.embeddings = final_embeddings(pose_buckets)
           /\ response.average_embedding = MeanAxis0(all_embeddings(pose_buckets))
           /\ response.liveness_score = liveness_result.score

DetectorConstructedOnce ==
    /\ constructions <= 1
    /\ face_app = "loaded" <=> constructions = 1
    /\ init_calls >= constructions

ResultAsAlone ==
    /\ endpoint # "idle" =>
           [endpoint |-> endpoint, request |-> request] \in ConcurrentRequests
    /\ \A i \in 1..Len(suspended) :
           [endpoint |-> suspended[i].endpoint,
            request |-> suspended[i].request] \in ConcurrentRequests
    /\ response # NoResponse =>
           IF endpoint = "register-continuous-video" THEN RegisterLocalsOwn
           ELSE response = AloneResponse(endpoint, request)

\* C21: face_app is the only module-level mutable state.  However many
\* times initialize_face_app is called the detector is constructed at most
\* once, no step of a request handler writes face_app, and under every
\* interleaving of concurrent requests the buckets, frame list, verdict and
\* result of each request are those of running that request alone.
C21_RequestsIsolated ==
    /\ [](DetectorConstructedOnce /\ ResultAsAlone)
    /\ [][(endpoint # "idle" \/ endpoint' # "idle") => face_app' = face_app]_vars
    /\ [][face_app = "loaded" => face_app' = face_app]_vars

\* a comparison that was parked at both of its awaits returns while
\* another coroutine is parked past its first await, after
\* initialize_face_app was called three times
C21_Witness ==
    /\ Returned("compare")
    /\ position = "read2"
    /\ response.success
    /\ Len(suspended) = 1
    /\ suspended[1].position = "read1"
    /\ suspended[1].request # request
    /\ init_calls = 3
    /\ constructions = 1

====
